---- MODULE Spec2Model ----
(***************************************************************************)
(* A model of op_query_builder: the statement builders (Node, Way,         *)
(* Relation, Changeset, Area), the temporal statements (Timeline,          *)
(* Recurse), the Query assembler and their rendering to Overpass QL text.  *)
(*                                                                         *)
(* Text.  A Python str is modelled as a sequence of atoms.  Every          *)
(* character the code inspects (; [ ] { } ( ) ! = ~ < > " , . : - space    *)
(* and newline) is an atom of its own; a run of other characters is one    *)
(* atom.  startswith, endswith, strip, rstrip, lstrip, split and `in` are  *)
(* computed on the atoms.                                                  *)
(*                                                                         *)
(* None.  An Optional value is a sequence of length at most one:           *)
(* None == <<>>, a set value v is <<v>>.                                   *)
(*                                                                         *)
(* Identifiers.  TLC integers are 32 bits wide and the Area threshold      *)
(* 2400000000 is not; element ids (id, ids) are therefore held in units    *)
(* of 10^8 (IdUnitZeros zeros are appended when a non-zero id is           *)
(* rendered).  Sign, zero and the order of ids are preserved.              *)
(***************************************************************************)
EXTENDS Integers, Sequences, FiniteSets, TLC

VARIABLES
    el,      \* the statement objects: el[s] is the fields of object s
    qs,      \* the Query objects: qs[q] is the fields of object q
    tm,      \* the Timeline and Recurse objects constructed so far
    ret,     \* the last call: [op, obj, on, res], res = "ok" or the exception
    out,     \* the string returned by the last call of __str__, else <<>>
    reg,     \* history: the registrations made on each Query, in call order
    client,  \* the QueryClient: its fields and the execute_query in progress
    budget   \* number of builder calls the caller still makes in this run
             \* (calls of __str__ are not counted)

vars == <<el, qs, tm, ret, out, reg, client, budget>>

-----------------------------------------------------------------------------
(* Bounds of the model *)

\* calls made in one run of a single-concern specification
MaxCalls == 4
\* calls made in one run of the specification with every operation
MaxCallsAll == 2
\* calls made in one run of the document specification
MaxCallsDoc == 3

\* the Query objects a run works on
QIds == {1, 2}

-----------------------------------------------------------------------------
(* Python values *)

None == <<>>
Some(v) == <<v>>

\* bool(x) of an Optional[int]: None and 0 are falsy
TruthyInt(o) == o # None /\ o[1] # 0

\* bool(x) of an Optional[str], Optional[tuple] or list: None and empty are falsy
TruthySeq(o) == o # None /\ o[1] # <<>>

Last(s) == s[Len(s)]
Front(s) == SubSeq(s, 1, Len(s) - 1)

IsSpace(a) == a \in {" ", "\n"}

RECURSIVE LStripSpace(_)
LStripSpace(s) ==
    IF s # <<>> /\ IsSpace(Head(s)) THEN LStripSpace(Tail(s)) ELSE s

RECURSIVE RStripSpace(_)
RStripSpace(s) ==
    IF s # <<>> /\ IsSpace(Last(s)) THEN RStripSpace(Front(s)) ELSE s

\* str.strip()
Strip(s) == RStripSpace(LStripSpace(s))

\* str.rstrip(c): every trailing c is removed
RECURSIVE RStrip(_, _)
RStrip(s, c) ==
    IF s # <<>> /\ Last(s) = c THEN RStrip(Front(s), c) ELSE s

\* str.lstrip(c): every leading c is removed
RECURSIVE LStrip(_, _)
LStrip(s, c) ==
    IF s # <<>> /\ Head(s) = c THEN LStrip(Tail(s), c) ELSE s

EndsWith(s, c) == s # <<>> /\ Last(s) = c
StartsWith(s, p) == Len(s) >= Len(p) /\ SubSeq(s, 1, Len(p)) = p

\* any(char in name for char in '[]{}();')
InvalidSetChars == {"[", "]", "{", "}", "(", ")", ";"}
HasInvalidChar(name) == \E i \in 1..Len(name) : name[i] \in InvalidSetChars

\* sep.join(parts)
RECURSIVE Join(_, _)
Join(sep, parts) ==
    IF parts = <<>> THEN <<>>
    ELSE IF Len(parts) = 1 THEN parts[1]
    ELSE parts[1] \o sep \o Join(sep, Tail(parts))

\* concatenation of a sequence of texts
RECURSIVE Concat(_)
Concat(parts) == IF parts = <<>> THEN <<>> ELSE Head(parts) \o Concat(Tail(parts))

\* str(n) of an int that is not an element id
StrInt(n) == <<ToString(n)>>

\* str(id) of an element id, held in units of 10^8
IdUnitZeros == "00000000"
StrId(n) == IF n = 0 THEN <<"0">> ELSE <<ToString(n) \o IdUnitZeros>>

\* ','.join(map(str, xs))
StrInts(xs) == Join(<<",">>, [i \in 1..Len(xs) |-> StrInt(xs[i])])
StrIds(xs) == Join(<<",">>, [i \in 1..Len(xs) |-> StrId(xs[i])])

\* the outcome of a call: the fields as the call left them, and whether it raised
Return(e) == [err |-> FALSE, e |-> e]
Raise(e) == [err |-> TRUE, e |-> e]

-----------------------------------------------------------------------------
(* Statement objects *)

Kinds == {"node", "way", "relation", "changeset", "area"}

\* the fields after construction; a field a class does not declare stays unset
NewElement(kind) ==
    [kind |-> kind,
     id |-> None, ids |-> <<>>, tags |-> <<>>, tag_conditions |-> <<>>,
     if_conditions |-> <<>>, pivot_set |-> None, filter_from_set |-> None,
     store_as_set_name |-> None,
     bbox |-> None, area_id |-> None, area_name |-> None,
     around_point |-> None, around_set |-> None,
     node |-> None, node_from_set |-> None,
     way |-> None, way_from_set |-> None,
     relation |-> None, relation_and_role |-> None, relation_from_set |-> None,
     is_closed |-> None, min_length |-> None, min_nodes |-> None,
     min_members |-> None, min_role_count |-> None,
     include_children |-> FALSE, include_parents |-> FALSE,
     time_range |-> None]

-----------------------------------------------------------------------------
(* Identifier selection *)

\* Element.with_id (Changeset.with_id, changeset.py 30-38, has the same body)
Element_with_id(e, id) ==
    IF id < 0 THEN Raise(e)
    ELSE IF e.ids # <<>> THEN Raise(e)
    ELSE Return([e EXCEPT !.id = Some(id)])

\* Area ids start at 2400000000, which is 24 units of 10^8
AreaIdMin == 24

\* Area.with_id: checks the pivot set, and never looks at ids
Area_with_id(e, id) ==
    IF id < 0 THEN Raise(e)
    ELSE IF id < AreaIdMin THEN Raise(e)
    ELSE IF e.pivot_set # None THEN Raise(e)
    ELSE Return([e EXCEPT !.id = Some(id)])

with_id(e, id) ==
    IF e.kind = "area" THEN Area_with_id(e, id) ELSE Element_with_id(e, id)

\* Element.with_ids (inherited by Area; Changeset.with_ids has the same body)
with_ids(e, ids) ==
    IF ids = <<>> THEN Raise(e)
    ELSE IF \E i \in 1..Len(ids) : ids[i] < 0 THEN Raise(e)
    ELSE IF e.id # None THEN Raise(e)
    ELSE Return([e EXCEPT !.ids = ids])

-----------------------------------------------------------------------------
(* Set references *)

Element_with_pivot(e, set_name) ==
    IF Strip(set_name) = <<>> THEN Raise(e)
    ELSE IF HasInvalidChar(set_name) THEN Raise(e)
    ELSE Return([e EXCEPT !.pivot_set = Some(set_name)])

\* an Area.with_pivot without the test of the id
Area_with_pivot_NoCheck(e, set_name) == Element_with_pivot(e, set_name)

\* Area.with_pivot: refuses when an id is set, then Element.with_pivot
Area_with_pivot(e, set_name) ==
    IF e.id # None THEN Raise(e) ELSE Element_with_pivot(e, set_name)

with_pivot(e, set_name) ==
    IF e.kind = "area" THEN Area_with_pivot(e, set_name)
    ELSE Element_with_pivot(e, set_name)

\* Element.from_set (Area and Changeset override it with the same body)
from_set(e, set_name) ==
    IF Strip(set_name) = <<>> THEN Raise(e)
    ELSE IF HasInvalidChar(set_name) THEN Raise(e)
    ELSE Return([e EXCEPT !.filter_from_set = Some(set_name)])

\* Element.store_as_set (Area and Changeset override it with the same body)
store_as_set(e, set_name) ==
    IF Strip(set_name) = <<>> THEN Raise(e)
    ELSE IF HasInvalidChar(set_name) THEN Raise(e)
    ELSE Return([e EXCEPT !.store_as_set_name = Some(set_name)])

-----------------------------------------------------------------------------
(* Tags: an ordered list of <<key, value>> pairs *)

\* index of the first stored tag whose key, stripped of leading '!', equals
\* the stripped new key; 0 when there is none
FirstNormalizedMatch(tags, key) ==
    LET hit == {i \in 1..Len(tags) : LStrip(tags[i][1], "!") = LStrip(key, "!")}
    IN  IF hit = {} THEN 0 ELSE CHOOSE i \in hit : \A j \in hit : i <= j

\* index of the first stored tag with exactly this key; 0 when there is none
FirstExactMatch(tags, key) ==
    LET hit == {i \in 1..Len(tags) : tags[i][1] = key}
    IN  IF hit = {} THEN 0 ELSE CHOOSE i \in hit : \A j \in hit : i <= j

\* Element._update_or_append_tag (Area._update_or_append_tag has the same body)
Element_update_or_append_tag(tags, key, value) ==
    LET i == FirstNormalizedMatch(tags, key)
    IN  IF i # 0 THEN [tags EXCEPT ![i] = <<key, value>>]
        ELSE Append(tags, <<key, value>>)

\* a Changeset._update_or_append_tag that appends whatever is stored
Changeset_update_or_append_tag_Appends(tags, key, value) ==
    Append(tags, <<key, value>>)

\* Changeset._update_or_append_tag: compares the keys as they are
Changeset_update_or_append_tag(tags, key, value) ==
    LET i == FirstExactMatch(tags, key)
    IN  IF i # 0 THEN [tags EXCEPT ![i] = <<key, value>>]
        ELSE Append(tags, <<key, value>>)

update_or_append_tag(e, key, value) ==
    [e EXCEPT !.tags =
        IF e.kind = "changeset"
        THEN Changeset_update_or_append_tag(e.tags, key, value)
        ELSE Element_update_or_append_tag(e.tags, key, value)]

\* with_tags: the list replaces the stored one
with_tags(e, tags) == Return([e EXCEPT !.tags = tags])

with_tag_exists(e, key) ==
    IF Strip(key) = <<>> THEN Raise(e)
    ELSE Return(update_or_append_tag(e, key, <<>>))

with_tag_not_exists(e, key) ==
    IF Strip(key) = <<>> THEN Raise(e)
    ELSE Return(update_or_append_tag(e, <<"!">> \o key, <<>>))

with_tag_not(e, key, value) ==
    IF Strip(key) = <<>> \/ Strip(value) = <<>> THEN Raise(e)
    ELSE Return(update_or_append_tag(e, key, <<"!", "=">> \o value))

with_tag_regex(e, key, regex) ==
    IF Strip(key) = <<>> \/ Strip(regex) = <<>> THEN Raise(e)
    ELSE Return(update_or_append_tag(e, key, <<"~">> \o regex))

\* Node/Way/Relation.with_user append; Changeset.with_user updates or appends
with_user(e, username) ==
    IF Strip(username) = <<>> THEN Raise(e)
    ELSE IF e.kind = "changeset"
         THEN Return(update_or_append_tag(e, <<"user">>, username))
         ELSE Return([e EXCEPT !.tags = Append(@, <<<<"user">>, username>>)])

with_uid(e, uid) ==
    IF uid < 0 THEN Raise(e)
    ELSE IF e.kind = "changeset"
         THEN Return(update_or_append_tag(e, <<"uid">>, StrInt(uid)))
         ELSE Return([e EXCEPT !.tags = Append(@, <<<<"uid">>, StrInt(uid)>>)])

\* the shallow ISO 8601 test: 'T' not in t or 'Z' not in t
LooksIso(t) ==
    /\ \E i \in 1..Len(t) : t[i] = "T"
    /\ \E i \in 1..Len(t) : t[i] = "Z"

with_newer(e, timestamp) ==
    IF Strip(timestamp) = <<>> THEN Raise(e)
    ELSE IF ~LooksIso(timestamp) THEN Raise(e)
    ELSE Return([e EXCEPT !.tags =
                    Append(@, <<<<"newer">>, <<"\"">> \o timestamp \o <<"\"">>>>)])

with_version(e, version) ==
    IF version < 1 THEN Raise(e)
    ELSE Return([e EXCEPT !.tags = Append(@, <<<<"version">>, StrInt(version)>>)])

\* Relation.with_type
with_type(e, relation_type) ==
    IF Strip(relation_type) = <<>> THEN Raise(e)
    ELSE Return([e EXCEPT !.tags = Append(@, <<<<"type">>, relation_type>>)])

\* Area.with_boundary, Area.with_name
with_boundary(e, boundary) ==
    IF Strip(boundary) = <<>> THEN Raise(e)
    ELSE Return(update_or_append_tag(e, <<"boundary">>, boundary))

with_name(e, name) ==
    IF Strip(name) = <<>> THEN Raise(e)
    ELSE Return(update_or_append_tag(e, <<"name">>, name))

\* Changeset.with_open, with_comment, with_created_by
with_open(e, is_open) ==
    Return(update_or_append_tag(e, <<"open">>,
                                IF is_open THEN <<"true">> ELSE <<"false">>))

with_comment(e, comment) ==
    IF Strip(comment) = <<>> THEN Raise(e)
    ELSE Return(update_or_append_tag(e, <<"comment">>,
                                     <<"\"">> \o comment \o <<"\"">>))

with_created_by(e, editor) ==
    IF Strip(editor) = <<>> THEN Raise(e)
    ELSE Return(update_or_append_tag(e, <<"created_by">>, editor))

-----------------------------------------------------------------------------
(* Raw conditions *)

\* position of the first occurrence of the operator op (a text) in s; 0 if none
FirstOccurrence(s, op) ==
    LET hit == {i \in 1..(Len(s) - Len(op) + 1) : SubSeq(s, i, i + Len(op) - 1) = op}
    IN  IF hit = {} THEN 0 ELSE CHOOSE i \in hit : \A j \in hit : i <= j

\* operators = ['=', '!=', '~', '>', '<', '>=', '<='], searched in this order
Operators == << <<"=">>, <<"!", "=">>, <<"~">>, <<">">>, <<"<">>,
                <<">", "=">>, <<"<", "=">> >>

\* the first operator of the list that occurs in inner; <<>> when none does
OperatorFound(inner) ==
    LET hit == {k \in 1..Len(Operators) : FirstOccurrence(inner, Operators[k]) # 0}
    IN  IF hit = {} THEN <<>>
        ELSE Operators[CHOOSE k \in hit : \A j \in hit : k <= j]

\* Element.validate_tag_condition: TRUE when it returns, FALSE when it raises
validate_tag_condition(condition) ==
    IF Strip(condition) = <<>> THEN FALSE
    ELSE IF ~StartsWith(condition, <<"[">>) \/ ~EndsWith(condition, "]") THEN FALSE
    ELSE LET inner == Strip(SubSeq(condition, 2, Len(condition) - 1))
             op == OperatorFound(inner)
             at == FirstOccurrence(inner, op)
             key == Strip(SubSeq(inner, 1, at - 1))
             value == Strip(SubSeq(inner, at + Len(op), Len(inner)))
         IN  IF inner = <<>> THEN FALSE
             ELSE IF op = <<>> THEN FALSE
             ELSE IF key = <<>> THEN FALSE
             ELSE IF op \notin {<<"~">>, <<">">>, <<"<">>, <<">", "=">>, <<"<", "=">>}
                     /\ value = <<>> THEN FALSE
             ELSE IF op \in {<<"=">>, <<"!", "=">>, <<"~">>}
                     /\ ~(StartsWith(value, <<"\"">>) /\ EndsWith(value, "\""))
                  THEN FALSE
             ELSE TRUE

\* Element.with_tag_condition (Node, Way, Relation)
Element_with_tag_condition(e, condition) ==
    IF ~validate_tag_condition(condition) THEN Raise(e)
    ELSE Return([e EXCEPT !.tag_conditions = Append(@, condition)])

\* Area.with_tag_condition and Changeset.with_tag_condition: brackets only
Bracket_with_tag_condition(e, condition) ==
    IF Strip(condition) = <<>> THEN Raise(e)
    ELSE IF ~StartsWith(condition, <<"[">>) \/ ~EndsWith(condition, "]") THEN Raise(e)
    ELSE Return([e EXCEPT !.tag_conditions = Append(@, condition)])

with_tag_condition(e, condition) ==
    IF e.kind \in {"area", "changeset"} THEN Bracket_with_tag_condition(e, condition)
    ELSE Element_with_tag_condition(e, condition)

with_if_condition(e, condition) ==
    IF Strip(condition) = <<>> THEN Raise(e)
    ELSE Return([e EXCEPT !.if_conditions = Append(@, condition)])

-----------------------------------------------------------------------------
(* Spatial filters *)

\* Node/Way/Relation._has_spatial_filter: any([...]) is truthiness, so an
\* area_id of 0 does not count; Changeset._has_spatial_filter: bbox is not None
has_spatial_filter(e) ==
    IF e.kind = "changeset" THEN e.bbox # None
    ELSE \/ TruthySeq(e.bbox)
         \/ TruthyInt(e.area_id)
         \/ TruthySeq(e.area_name)
         \/ TruthySeq(e.around_point)
         \/ TruthySeq(e.around_set)

\* a test of the coordinate ranges that does not compare south with north
\* nor west with east
ValidBbox_RangesOnly(b) ==
    /\ -90 <= b[1] /\ b[1] <= 90 /\ -90 <= b[3] /\ b[3] <= 90
    /\ -180 <= b[2] /\ b[2] <= 180 /\ -180 <= b[4] /\ b[4] <= 180

\* -90 <= south <= north <= 90 and -180 <= west <= east <= 180
ValidBbox(b) ==
    /\ -90 <= b[1] /\ b[1] <= b[3] /\ b[3] <= 90
    /\ -180 <= b[2] /\ b[2] <= b[4] /\ b[4] <= 180

with_bbox(e, bbox) ==
    IF ~ValidBbox(bbox) THEN Raise(e)
    ELSE IF has_spatial_filter(e) THEN Raise(e)
    ELSE Return([e EXCEPT !.bbox = Some(bbox)])

with_area_by_id(e, area_id) ==
    IF area_id < 0 THEN Raise(e)
    ELSE IF has_spatial_filter(e) THEN Raise(e)
    ELSE Return([e EXCEPT !.area_id = Some(area_id)])

with_area_by_name(e, area_name) ==
    IF Strip(area_name) = <<>> THEN Raise(e)
    ELSE IF HasInvalidChar(area_name) THEN Raise(e)
    ELSE IF has_spatial_filter(e) THEN Raise(e)
    ELSE Return([e EXCEPT !.area_name = Some(area_name)])

with_around_point(e, radius, lat, lon) ==
    IF radius < 0 THEN Raise(e)
    ELSE IF ~(-90 <= lat /\ lat <= 90) \/ ~(-180 <= lon /\ lon <= 180) THEN Raise(e)
    ELSE IF has_spatial_filter(e) THEN Raise(e)
    ELSE Return([e EXCEPT !.around_point = Some(<<radius, lat, lon>>)])

\* with_around_set: the set name is only tested for blankness
with_around_set(e, set_name, radius) ==
    IF Strip(set_name) = <<>> THEN Raise(e)
    ELSE IF radius < 0 THEN Raise(e)
    ELSE IF has_spatial_filter(e) THEN Raise(e)
    ELSE Return([e EXCEPT !.around_set = Some(<<set_name, radius>>)])

-----------------------------------------------------------------------------
(* Membership filters *)

\* any([...]) again: a stored id of 0 does not count as a filter
has_node_filter(e) == TruthyInt(e.node) \/ TruthySeq(e.node_from_set)

has_way_filter(e) == TruthyInt(e.way) \/ TruthySeq(e.way_from_set)

has_relation_filter(e) ==
    \/ TruthyInt(e.relation)
    \/ TruthySeq(e.relation_and_role)
    \/ TruthySeq(e.relation_from_set)

\* what a way/relation membership setter tests before it stores: on a Node
\* both families, on a Way or Relation the setter's own family
WayFilterTaken(e) ==
    IF e.kind = "node" THEN has_way_filter(e) \/ has_relation_filter(e)
    ELSE has_way_filter(e)

RelationFilterTaken(e) ==
    IF e.kind = "node" THEN has_relation_filter(e) \/ has_way_filter(e)
    ELSE has_relation_filter(e)

with_node(e, node_id) ==
    IF node_id < 0 THEN Raise(e)
    ELSE IF has_node_filter(e) THEN Raise(e)
    ELSE Return([e EXCEPT !.node = Some(node_id)])

with_node_from_set(e, set_name) ==
    IF Strip(set_name) = <<>> THEN Raise(e)
    ELSE IF HasInvalidChar(set_name) THEN Raise(e)
    ELSE IF has_node_filter(e) THEN Raise(e)
    ELSE Return([e EXCEPT !.node_from_set = Some(set_name)])

with_way(e, way_id) ==
    IF way_id < 0 THEN Raise(e)
    ELSE IF WayFilterTaken(e) THEN Raise(e)
    ELSE Return([e EXCEPT !.way = Some(way_id)])

with_way_from_set(e, set_name) ==
    IF Strip(set_name) = <<>> THEN Raise(e)
    ELSE IF HasInvalidChar(set_name) THEN Raise(e)
    ELSE IF WayFilterTaken(e) THEN Raise(e)
    ELSE Return([e EXCEPT !.way_from_set = Some(set_name)])

with_relation(e, relation_id) ==
    IF relation_id < 0 THEN Raise(e)
    ELSE IF RelationFilterTaken(e) THEN Raise(e)
    ELSE Return([e EXCEPT !.relation = Some(relation_id)])

with_relation_and_role(e, relation_id, role) ==
    IF relation_id < 0 THEN Raise(e)
    ELSE IF Strip(role) = <<>> THEN Raise(e)
    ELSE IF RelationFilterTaken(e) THEN Raise(e)
    ELSE Return([e EXCEPT !.relation_and_role = Some(<<relation_id, role>>)])

with_relation_from_set(e, set_name) ==
    IF Strip(set_name) = <<>> THEN Raise(e)
    ELSE IF HasInvalidChar(set_name) THEN Raise(e)
    ELSE IF RelationFilterTaken(e) THEN Raise(e)
    ELSE Return([e EXCEPT !.relation_from_set = Some(set_name)])

-----------------------------------------------------------------------------
(* Kind-specific predicates and recursion flags *)

with_closed(e, is_closed) == Return([e EXCEPT !.is_closed = Some(is_closed)])

with_min_length(e, length) ==
    IF length < 0 THEN Raise(e) ELSE Return([e EXCEPT !.min_length = Some(length)])

with_min_nodes(e, node_count) ==
    IF node_count < 1 THEN Raise(e)
    ELSE Return([e EXCEPT !.min_nodes = Some(node_count)])

with_min_members(e, count) ==
    IF count < 1 THEN Raise(e) ELSE Return([e EXCEPT !.min_members = Some(count)])

with_min_role_count(e, role, count) ==
    IF Strip(role) = <<>> THEN Raise(e)
    ELSE IF count < 1 THEN Raise(e)
    ELSE Return([e EXCEPT !.min_role_count = Some(<<role, count>>)])

\* Way.with_nodes (include_nodes) and Relation.with_members (include_members)
with_children(e) == Return([e EXCEPT !.include_children = TRUE])

with_parents(e) == Return([e EXCEPT !.include_parents = TRUE])

-----------------------------------------------------------------------------
(* Changeset time filters *)

has_time_filter(e) ==
    \/ \E i \in 1..Len(e.tags) : e.tags[i][1] = <<"time">>
    \/ e.time_range # None

with_time(e, timestamp) ==
    IF Strip(timestamp) = <<>> THEN Raise(e)
    ELSE IF ~LooksIso(timestamp) THEN Raise(e)
    ELSE IF has_time_filter(e) THEN Raise(e)
    ELSE Return(update_or_append_tag(e, <<"time">>,
                                     <<"\"">> \o timestamp \o <<"\"">>))

with_time_range(e, start_time, end_time) ==
    IF Strip(start_time) = <<>> \/ Strip(end_time) = <<>> THEN Raise(e)
    ELSE IF ~LooksIso(start_time) \/ ~LooksIso(end_time) THEN Raise(e)
    ELSE IF has_time_filter(e) THEN Raise(e)
    ELSE Return([e EXCEPT !.time_range = Some(<<start_time, end_time>>)])

-----------------------------------------------------------------------------
(* Rendering of statements: __str__ *)

\* one tag clause, by the shape of the stored value
TagClause(tag) ==
    LET key == tag[1]
        value == tag[2]
    IN  IF value = <<>> THEN <<"[">> \o key \o <<"]">>
        ELSE IF StartsWith(value, <<"~">>) THEN <<"[">> \o key \o value \o <<"]">>
        ELSE IF StartsWith(value, <<"!", "=">>) THEN <<"[">> \o key \o value \o <<"]">>
        ELSE <<"[">> \o key \o <<"=">> \o value \o <<"]">>

TagClauses(tags) == Concat([i \in 1..Len(tags) |-> TagClause(tags[i])])

\* Element._append_if_conditions
append_if_conditions(conds) ==
    Concat([i \in 1..Len(conds) |-> <<"[", "if", ":">> \o conds[i] \o <<"]">>])

FromSetPrefix(e) ==
    IF TruthySeq(e.filter_from_set) THEN <<".">> \o e.filter_from_set[1] \o <<" ">>
    ELSE <<>>

IdClause(e) ==
    IF e.id # None THEN <<"(">> \o StrId(e.id[1]) \o <<")">>
    ELSE IF e.ids # <<>> THEN <<"(">> \o StrIds(e.ids) \o <<")">>
    ELSE <<>>

PivotClause(e) ==
    IF TruthySeq(e.pivot_set) THEN <<"(", "pivot", ".">> \o e.pivot_set[1] \o <<")">>
    ELSE <<>>

SpatialClauses(e) ==
    (IF TruthySeq(e.bbox) THEN <<"(">> \o StrInts(e.bbox[1]) \o <<")">> ELSE <<>>)
    \o (IF e.area_id # None
        THEN <<"(", "area", ":">> \o StrInt(e.area_id[1]) \o <<")">> ELSE <<>>)
    \o (IF TruthySeq(e.area_name)
        THEN <<"(", "area", ".">> \o e.area_name[1] \o <<")">> ELSE <<>>)
    \o (IF TruthySeq(e.around_point)
        THEN <<"(", "around", ":">> \o StrInts(e.around_point[1]) \o <<")">>
        ELSE <<>>)
    \o (IF TruthySeq(e.around_set)
        THEN <<"(", "around", ".">> \o e.around_set[1][1] \o <<":">>
             \o StrInt(e.around_set[1][2]) \o <<")">>
        ELSE <<>>)

NodeClauses(e) ==
    (IF e.node # None THEN <<"(", "n", ":">> \o StrInt(e.node[1]) \o <<")">> ELSE <<>>)
    \o (IF TruthySeq(e.node_from_set)
        THEN <<"(", "n", ".">> \o e.node_from_set[1] \o <<")">> ELSE <<>>)

WayClauses(e) ==
    (IF e.way # None THEN <<"(", "w", ":">> \o StrInt(e.way[1]) \o <<")">> ELSE <<>>)
    \o (IF TruthySeq(e.way_from_set)
        THEN <<"(", "w", ".">> \o e.way_from_set[1] \o <<")">> ELSE <<>>)

RelationClauses(e) ==
    (IF e.relation # None
     THEN <<"(", "r", ":">> \o StrInt(e.relation[1]) \o <<")">> ELSE <<>>)
    \o (IF TruthySeq(e.relation_and_role)
        THEN <<"(", "r", ":">> \o StrInt(e.relation_and_role[1][1])
             \o <<",", "\"">> \o e.relation_and_role[1][2] \o <<"\"", ")">>
        ELSE <<>>)
    \o (IF TruthySeq(e.relation_from_set)
        THEN <<"(", "r", ".">> \o e.relation_from_set[1] \o <<")">> ELSE <<>>)

StoreSuffix(e) ==
    IF TruthySeq(e.store_as_set_name)
    THEN <<"-", ">", ".">> \o e.store_as_set_name[1]
    ELSE <<>>

\* the recursion wrap of Way.__str__ and Relation.__str__
RecursionWrap(e, query) ==
    IF e.include_children \/ e.include_parents
    THEN <<"(">> \o query \o <<";">>
         \o (IF e.include_children
             THEN <<">">> \o (IF e.include_parents THEN <<";">> ELSE <<>>)
             ELSE <<>>)
         \o (IF e.include_parents THEN <<"<">> ELSE <<>>)
         \o <<")">>
    ELSE query

\* the statement before the recursion wrap, the suffix and the terminator
NodeInner(e) ==
    FromSetPrefix(e) \o <<"node">> \o IdClause(e) \o PivotClause(e)
    \o TagClauses(e.tags) \o Concat(e.tag_conditions)
    \o append_if_conditions(e.if_conditions)
    \o SpatialClauses(e) \o RelationClauses(e) \o WayClauses(e)

WayInner(e) ==
    FromSetPrefix(e) \o <<"way">> \o IdClause(e) \o PivotClause(e)
    \o TagClauses(e.tags) \o Concat(e.tag_conditions)
    \o append_if_conditions(e.if_conditions)
    \o (IF e.is_closed # None
        THEN <<"[", "is_closed", "=">>
             \o (IF e.is_closed[1] THEN <<"true">> ELSE <<"false">>) \o <<"]">>
        ELSE <<>>)
    \o (IF e.min_length # None
        THEN <<"[", "if", ":", "length", "(", ")", ">">>
             \o StrInt(e.min_length[1]) \o <<"]">>
        ELSE <<>>)
    \o (IF e.min_nodes # None
        THEN <<"[", "if", ":", "count", "(", "nodes", ")", ">">>
             \o StrInt(e.min_nodes[1]) \o <<"]">>
        ELSE <<>>)
    \o SpatialClauses(e) \o NodeClauses(e) \o RelationClauses(e)

RelationInner(e) ==
    FromSetPrefix(e) \o <<"relation">> \o IdClause(e) \o PivotClause(e)
    \o TagClauses(e.tags) \o Concat(e.tag_conditions)
    \o append_if_conditions(e.if_conditions)
    \o (IF e.min_members # None
        THEN <<"[", "if", ":", "count", "(", "members", ")", ">">>
             \o StrInt(e.min_members[1]) \o <<"]">>
        ELSE <<>>)
    \o (IF e.min_role_count # None
        THEN <<"[", "if", ":", "count_by_role", "(", "\"">>
             \o e.min_role_count[1][1] \o <<"\"", ")", ">">>
             \o StrInt(e.min_role_count[1][2]) \o <<"]">>
        ELSE <<>>)
    \o SpatialClauses(e) \o NodeClauses(e) \o WayClauses(e) \o RelationClauses(e)

Node_str(e) == NodeInner(e) \o StoreSuffix(e) \o <<";">>

\* a Way.__str__ that adds the set suffix before the recursion wrap
Way_str_SuffixInside(e) ==
    RecursionWrap(e, WayInner(e) \o StoreSuffix(e)) \o <<";">>

Way_str(e) == RecursionWrap(e, WayInner(e)) \o StoreSuffix(e) \o <<";">>

Relation_str(e) == RecursionWrap(e, RelationInner(e)) \o StoreSuffix(e) \o <<";">>

Changeset_str(e) ==
    FromSetPrefix(e) \o <<"changeset">> \o IdClause(e)
    \o TagClauses(e.tags) \o Concat(e.tag_conditions)
    \o append_if_conditions(e.if_conditions)
    \o (IF TruthySeq(e.time_range)
        THEN <<"[", "time", ">", "=", "\"">> \o e.time_range[1][1]
             \o <<"\"", "]", "[", "time", "<", "=", "\"">> \o e.time_range[1][2]
             \o <<"\"", "]">>
        ELSE <<>>)
    \o (IF TruthySeq(e.bbox) THEN <<"(">> \o StrInts(e.bbox[1]) \o <<")">> ELSE <<>>)
    \o StoreSuffix(e) \o <<";">>

\* Area.__str__ renders the id only, never ids
Area_str(e) ==
    FromSetPrefix(e) \o <<"area">>
    \o (IF e.id # None THEN <<"(">> \o StrId(e.id[1]) \o <<")">> ELSE <<>>)
    \o PivotClause(e)
    \o TagClauses(e.tags) \o Concat(e.tag_conditions)
    \o append_if_conditions(e.if_conditions)
    \o StoreSuffix(e) \o <<";">>

\* str(element)
Element_str(e) ==
    CASE e.kind = "node" -> Node_str(e)
      [] e.kind = "way" -> Way_str(e)
      [] e.kind = "relation" -> Relation_str(e)
      [] e.kind = "changeset" -> Changeset_str(e)
      [] e.kind = "area" -> Area_str(e)

-----------------------------------------------------------------------------
(* Temporal statements: Timeline and Recurse.  An object is the record     *)
(* [t, element, direction, set_name]; element is the statement object a    *)
(* Timeline refers to (0 on a Recurse), direction and set_name are the     *)
(* fields of a Recurse (empty on a Timeline).                              *)

\* Timeline.__init__ with Timeline._validate: the element is kept by
\* reference and only its class is tested
Timeline_init(H, s) ==
    LET self == [t |-> "timeline", element |-> s, direction |-> <<>>,
                 set_name |-> None]
    IN  IF H[s].kind \notin {"node", "way", "relation"}
        THEN [err |-> "TypeError", e |-> self]
        ELSE [err |-> "ok", e |-> self]

\* Timeline.__str__
Timeline_str(H, self) ==
    LET element_str == Element_str(H[self.element])
    IN  <<"timeline", "(">>
        \o (IF EndsWith(element_str, ";") THEN Front(element_str) ELSE element_str)
        \o <<")", ";">>

ValidDirections == {<<">", ">">>, <<"<", "<">>}

\* Recurse.__init__ with Recurse._validate; set_name is an Optional
Recurse_init(direction, set_name) ==
    LET self == [t |-> "recurse", element |-> 0, direction |-> direction,
                 set_name |-> set_name]
    IN  IF direction \notin ValidDirections THEN [err |-> "ValueError", e |-> self]
        ELSE IF set_name # None /\ Strip(set_name[1]) = <<>>
             THEN [err |-> "ValueError", e |-> self]
        ELSE IF set_name # None /\ HasInvalidChar(set_name[1])
             THEN [err |-> "ValueError", e |-> self]
        ELSE [err |-> "ok", e |-> self]

\* Recurse.__str__
Recurse_str(self) ==
    IF TruthySeq(self.set_name)
    THEN <<".">> \o self.set_name[1] \o <<" ">> \o self.direction \o <<";">>
    ELSE self.direction \o <<";">>

-----------------------------------------------------------------------------
(* Query objects *)

\* Query.__init__
NewQuery ==
    [output |-> <<"json">>, output_detail |-> Some(<<"body">>),
     timeout |-> None, date |-> None, global_bbox |-> None,
     statements |-> <<>>, is_in_statements |-> <<>>,
     foreach_statements |-> <<>>, convert_statements |-> <<>>,
     sort_order |-> None, limit |-> None, output_mode |-> None,
     settings |-> <<>>]

\* the entries of Query.statements
ElemEntry(s) == [t |-> "elem", ref |-> s]
RawEntry(text) == [t |-> "raw", text |-> text]
\* Union.__init__, Difference.__init__
UnionEntry(elements) == [t |-> "union", elements |-> elements]
DifferenceEntry(base, subtract) ==
    [t |-> "difference", base |-> base, subtract |-> subtract]

with_output(Q, q, output) ==
    IF output \notin {<<"json">>, <<"csv">>, <<"xml">>} THEN Raise(Q)
    ELSE Return([Q EXCEPT ![q].output = output])

ValidDetails ==
    {<<"body">>, <<"skel">>, <<"geom">>, <<"tags">>, <<"meta">>, <<"center">>}

\* detail is an Optional: None clears the output directive
with_output_detail(Q, q, detail) ==
    IF detail # None /\ detail[1] \notin ValidDetails THEN Raise(Q)
    ELSE Return([Q EXCEPT ![q].output_detail = detail])

with_timeout(Q, q, timeout) ==
    IF timeout <= 0 THEN Raise(Q)
    ELSE Return([Q EXCEPT ![q].timeout = Some(timeout)])

with_date(Q, q, date) ==
    IF Strip(date) = <<>> THEN Raise(Q)
    ELSE IF ~LooksIso(date) THEN Raise(Q)
    ELSE Return([Q EXCEPT ![q].date = Some(date)])

\* Query._validate_bbox: TRUE when it returns
validate_bbox(bbox) ==
    /\ -90 <= bbox[1] /\ bbox[1] <= bbox[3] /\ bbox[3] <= 90
    /\ -180 <= bbox[2] /\ bbox[2] <= bbox[4] /\ bbox[4] <= 180

with_global_bbox(Q, q, bbox) ==
    IF ~validate_bbox(bbox) THEN Raise(Q)
    ELSE Return([Q EXCEPT ![q].global_bbox = Some(bbox)])

ValidSortOrders == {<<"qt">>, <<"asc">>, <<"desc">>}

\* a with_sort_order that refuses a sort order while an output mode is set
with_sort_order_ChecksMode(Q, q, sort_order) ==
    IF sort_order \notin ValidSortOrders THEN Raise(Q)
    ELSE IF Q[q].output_mode # None THEN Raise(Q)
    ELSE Return([Q EXCEPT ![q].sort_order = Some(sort_order)])

with_sort_order(Q, q, sort_order) ==
    IF sort_order \notin ValidSortOrders THEN Raise(Q)
    ELSE Return([Q EXCEPT ![q].sort_order = Some(sort_order)])

with_limit(Q, q, limit) ==
    IF limit <= 0 THEN Raise(Q)
    ELSE Return([Q EXCEPT ![q].limit = Some(limit)])

ValidModes == {<<"count">>, <<"ids">>}

\* mode is an Optional: None disables the output mode
with_output_mode(Q, q, mode) ==
    IF mode # None /\ mode[1] \notin ValidModes THEN Raise(Q)
    ELSE Return([Q EXCEPT ![q].output_mode = mode])

\* the numerals int() is given in this model
Numerals == {"0", "1", "1000000"}

\* int(value) returns: optional blanks and sign around one numeral
ParsesAsInt(value) ==
    LET v == Strip(value)
    IN  \/ Len(v) = 1 /\ v[1] \in Numerals
        \/ Len(v) = 2 /\ v[1] \in {"-", "+"} /\ v[2] \in Numerals

\* dict assignment: an existing key keeps its position
DictSet(d, key, value) ==
    LET hit == {i \in 1..Len(d) : d[i][1] = key}
    IN  IF hit = {} THEN Append(d, <<key, value>>)
        ELSE [d EXCEPT ![CHOOSE i \in hit : TRUE] = <<key, value>>]

with_setting(Q, q, key, value) ==
    IF Strip(key) = <<>> THEN Raise(Q)
    ELSE IF key = <<"maxsize">> /\ ~ParsesAsInt(value) THEN Raise(Q)
    ELSE IF key = <<"diff">> /\ ~LooksIso(value) THEN Raise(Q)
    ELSE Return([Q EXCEPT ![q].settings = DictSet(@, key, value)])

\* add_node, add_way, add_relation, add_changeset, add_area: no check at all
add_element(Q, q, s) ==
    Return([Q EXCEPT ![q].statements = Append(@, ElemEntry(s))])

\* an add_union that accepts an empty tuple of elements
add_union_NoCheck(Q, q, elements) ==
    Return([Q EXCEPT ![q].statements =
               Append(@, UnionEntry([i \in 1..Len(elements) |->
                                        ElemEntry(elements[i])]))])

\* elements: the statement objects given, a tuple of references
add_union(Q, q, elements) ==
    IF elements = <<>> THEN Raise(Q)
    ELSE Return([Q EXCEPT ![q].statements =
                    Append(@, UnionEntry([i \in 1..Len(elements) |->
                                             ElemEntry(elements[i])]))])

add_difference(Q, q, base, subtract) ==
    IF subtract = <<>> THEN Raise(Q)
    ELSE Return([Q EXCEPT ![q].statements =
                    Append(@, DifferenceEntry(ElemEntry(base),
                                  [i \in 1..Len(subtract) |->
                                      ElemEntry(subtract[i])]))])

\* set_name is an Optional
add_is_in(Q, q, lat, lon, set_name) ==
    IF ~(-90 <= lat /\ lat <= 90) \/ ~(-180 <= lon /\ lon <= 180) THEN Raise(Q)
    ELSE IF set_name # None /\ Strip(set_name[1]) = <<>> THEN Raise(Q)
    ELSE IF set_name # None /\ HasInvalidChar(set_name[1]) THEN Raise(Q)
    ELSE Return([Q EXCEPT ![q].is_in_statements = Append(@, <<lat, lon, set_name>>)])

\* an add_foreach that clears the sub-query's output detail before it has
\* checked the set name
add_foreach_ClearsFirst(Q, q, set_name, subquery) ==
    LET Q1 == with_output_detail(Q, subquery, None).e
    IN  IF Strip(set_name) = <<>> THEN Raise(Q1)
        ELSE IF HasInvalidChar(set_name) THEN Raise(Q1)
        ELSE Return([Q1 EXCEPT ![q].foreach_statements =
                        Append(@, <<set_name, subquery>>)])

\* add_foreach clears the sub-query's output detail, then registers it
add_foreach(Q, q, set_name, subquery) ==
    IF Strip(set_name) = <<>> THEN Raise(Q)
    ELSE IF HasInvalidChar(set_name) THEN Raise(Q)
    ELSE LET Q1 == with_output_detail(Q, subquery, None).e
         IN  Return([Q1 EXCEPT ![q].foreach_statements =
                        Append(@, <<set_name, subquery>>)])

add_convert(Q, q, element_type, set_name, tags) ==
    IF element_type \notin {<<"node">>, <<"way">>, <<"relation">>} THEN Raise(Q)
    ELSE IF Strip(set_name) = <<>> THEN Raise(Q)
    ELSE IF HasInvalidChar(set_name) THEN Raise(Q)
    ELSE Return([Q EXCEPT ![q].convert_statements =
                    Append(@, <<element_type, set_name, tags>>)])

add_raw(Q, q, raw_statement) ==
    IF Strip(raw_statement) = <<>> THEN Raise(Q)
    ELSE IF ~EndsWith(Strip(raw_statement), ";") THEN Raise(Q)
    ELSE Return([Q EXCEPT ![q].statements = Append(@, RawEntry(raw_statement))])

\* the Union holds the very entries of other.statements
union_with(Q, q, other) ==
    IF Q[other].statements # <<>>
    THEN Return([Q EXCEPT ![q].statements = Append(@, UnionEntry(Q[other].statements))])
    ELSE Return(Q)

\* a difference_with that puts the Difference behind the remaining statements
difference_with_AtEnd(Q, q, other) ==
    IF Q[q].statements = <<>> THEN Raise(Q)
    ELSE IF Q[other].statements = <<>> THEN Raise(Q)
    ELSE LET base == Q[q].statements[1]
             subtract == Q[other].statements
         IN  Return([Q EXCEPT ![q].statements =
                        Tail(Q[q].statements) \o <<DifferenceEntry(base, subtract)>>])

difference_with(Q, q, other) ==
    IF Q[q].statements = <<>> THEN Raise(Q)
    ELSE IF Q[other].statements = <<>> THEN Raise(Q)
    ELSE LET base == Q[q].statements[1]
             subtract == Q[other].statements
         IN  Return([Q EXCEPT ![q].statements =
                        <<DifferenceEntry(base, subtract)>> \o Tail(Q[q].statements)])

-----------------------------------------------------------------------------
(* Rendering of a Query: __str__ *)

\* str.split(sep): the pieces between the occurrences of the atom sep
RECURSIVE Split(_, _)
Split(s, sep) ==
    LET hit == {i \in 1..Len(s) : s[i] = sep}
    IN  IF hit = {} THEN <<s>>
        ELSE LET i == CHOOSE k \in hit : \A j \in hit : k <= j
             IN  <<SubSeq(s, 1, i - 1)>> \o Split(SubSeq(s, i + 1, Len(s)), sep)

\* str(statement) of an entry of Query.statements; H is the statement objects
RECURSIVE Statement_str(_, _)
\* Union.__str__
Union_str(H, u) ==
    LET element_strs ==
            [i \in 1..Len(u.elements) |-> RStrip(Statement_str(H, u.elements[i]), ";")]
    IN  <<"(">>
        \o Join(<<" ">>, [i \in 1..Len(element_strs) |-> element_strs[i] \o <<";">>])
        \o <<")", ";">>

\* Difference.__str__
Difference_str(H, d) ==
    LET base_str == RStrip(Statement_str(H, d.base), ";")
        subtract_strs ==
            [i \in 1..Len(d.subtract) |-> RStrip(Statement_str(H, d.subtract[i]), ";")]
        subtract_part ==
            Join(<<" ">>, [i \in 1..Len(subtract_strs) |->
                              <<"-", " ">> \o subtract_strs[i] \o <<";">>])
    IN  <<"(">> \o base_str \o <<";", " ">> \o subtract_part \o <<")", ";">>

Statement_str(H, entry) ==
    CASE entry.t = "elem" -> Element_str(H[entry.ref])
      [] entry.t = "raw" -> entry.text
      [] entry.t = "union" -> Union_str(H, entry)
      [] entry.t = "difference" -> Difference_str(H, entry)

\* a _validate_query without the check of the limit
validate_query_NoLimitCheck(qr) ==
    IF qr.output_mode # None /\ qr.output_mode[1] \in {<<"count">>, <<"ids">>}
    THEN IF TruthySeq(qr.sort_order) THEN FALSE
         ELSE IF TruthySeq(qr.output_detail) /\ qr.output_detail[1] # <<"body">>
              THEN FALSE
         ELSE TRUE
    ELSE TRUE

\* Query._validate_query: TRUE when it returns, FALSE when it raises
validate_query(qr) ==
    IF qr.output_mode # None /\ qr.output_mode[1] \in {<<"count">>, <<"ids">>}
    THEN IF TruthySeq(qr.sort_order) THEN FALSE
         ELSE IF TruthyInt(qr.limit) THEN FALSE
         ELSE IF TruthySeq(qr.output_detail) /\ qr.output_detail[1] # <<"body">>
              THEN FALSE
         ELSE TRUE
    ELSE TRUE

\* the parts of the global settings line
SettingsParts(qr) ==
    LET custom(kv) ==
            IF kv[1] \in {<<"date">>, <<"timeout">>, <<"bbox">>, <<"out">>} THEN <<>>
            ELSE IF kv[1] \in {<<"date">>, <<"diff">>}
                 THEN <<kv[1] \o <<":", "\"">> \o kv[2] \o <<"\"">>>>
                 ELSE <<kv[1] \o <<":">> \o kv[2]>>
    IN  (IF qr.output # <<>> THEN <<<<"out", ":">> \o qr.output>> ELSE <<>>)
        \o (IF qr.timeout # None
            THEN <<<<"timeout", ":">> \o StrInt(qr.timeout[1])>> ELSE <<>>)
        \o (IF qr.date # None
            THEN <<<<"date", ":", "\"">> \o qr.date[1] \o <<"\"">>>> ELSE <<>>)
        \o (IF TruthySeq(qr.global_bbox)
            THEN <<<<"bbox", ":">> \o StrInts(qr.global_bbox[1])>> ELSE <<>>)
        \o Concat([i \in 1..Len(qr.settings) |-> custom(qr.settings[i])])

SettingsLines(qr) ==
    IF SettingsParts(qr) # <<>>
    THEN <<<<"[">> \o Join(<<" ">>, SettingsParts(qr)) \o <<"]", ";">>>>
    ELSE <<>>

IsInLine(entry) ==
    <<"is_in", "(">> \o StrInt(entry[1]) \o <<",">> \o StrInt(entry[2]) \o <<")">>
    \o (IF TruthySeq(entry[3]) THEN <<"-", ">", ".">> \o entry[3][1] ELSE <<>>)
    \o <<";">>

\* one entry of statements: its last ';' is cut, if it has one, and one is added
StatementLine(H, entry) ==
    LET statement_str == Statement_str(H, entry)
    IN  (IF EndsWith(statement_str, ";") THEN Front(statement_str) ELSE statement_str)
        \o <<";">>

ConvertLine(entry) ==
    <<"convert", " ">> \o entry[1] \o <<" ">> \o Join(<<",", " ">>, entry[3])
    \o (IF entry[2] # <<>> THEN <<"-", ">", ".">> \o entry[2] ELSE <<>>)
    \o <<";">>

\* an output directive that still emits sort order and limit when the detail
\* has been cleared
OutputLines_KeepsModifiers(qr) ==
    IF qr.output_mode = Some(<<"count">>) THEN <<<<"out", " ", "count", ";">>>>
    ELSE IF qr.output_mode = Some(<<"ids">>) THEN <<<<"out", " ", "ids", ";">>>>
    ELSE LET parts ==
                 (IF qr.output_detail # None
                  THEN <<<<"out", " ">> \o qr.output_detail[1]>> ELSE <<>>)
                 \o (IF TruthySeq(qr.sort_order) THEN <<qr.sort_order[1]>> ELSE <<>>)
                 \o (IF qr.limit # None THEN <<StrInt(qr.limit[1])>> ELSE <<>>)
         IN  IF parts = <<>> THEN <<>> ELSE << Join(<<" ">>, parts) \o <<";">> >>

\* the output directive of __str__
OutputLines(qr) ==
    IF qr.output_mode = Some(<<"count">>) THEN <<<<"out", " ", "count", ";">>>>
    ELSE IF qr.output_mode = Some(<<"ids">>) THEN <<<<"out", " ", "ids", ";">>>>
    ELSE IF qr.output_detail # None
         THEN << Join(<<" ">>,
                      <<<<"out", " ">> \o qr.output_detail[1]>>
                      \o (IF TruthySeq(qr.sort_order) THEN <<qr.sort_order[1]>> ELSE <<>>)
                      \o (IF qr.limit # None THEN <<StrInt(qr.limit[1])>> ELSE <<>>))
                 \o <<";">> >>
         ELSE <<>>

\* a __str__ that emits the convert lines ahead of the other sections
DocumentLines_ConvertFirst(H, qr, foreach_lines) ==
    [i \in 1..Len(qr.convert_statements) |-> ConvertLine(qr.convert_statements[i])]
    \o SettingsLines(qr)
    \o [i \in 1..Len(qr.is_in_statements) |-> IsInLine(qr.is_in_statements[i])]
    \o [i \in 1..Len(qr.statements) |-> StatementLine(H, qr.statements[i])]
    \o foreach_lines
    \o OutputLines(qr)

\* query_lines of __str__, in the order its sections are appended
DocumentLines(H, qr, foreach_lines) ==
    SettingsLines(qr)
    \o [i \in 1..Len(qr.is_in_statements) |-> IsInLine(qr.is_in_statements[i])]
    \o [i \in 1..Len(qr.statements) |-> StatementLine(H, qr.statements[i])]
    \o foreach_lines
    \o [i \in 1..Len(qr.convert_statements) |-> ConvertLine(qr.convert_statements[i])]
    \o OutputLines(qr)

\* a _get_subquery_elements that skips the settings line only
get_subquery_elements_KeepsOutput(subquery_str) ==
    LET subquery_lines == Split(subquery_str, "\n")
        keep(line) == ~StartsWith(line, <<"[">>) /\ Strip(line) # <<>>
    IN  [i \in 1..Len(SelectSeq(subquery_lines, keep)) |->
            RStrip(SelectSeq(subquery_lines, keep)[i], ";")]

\* Query._get_subquery_elements, applied to str(subquery)
get_subquery_elements(subquery_str) ==
    LET subquery_lines == Split(subquery_str, "\n")
        keep(line) ==
            /\ ~(StartsWith(line, <<"[">>) \/ StartsWith(line, <<"out", " ">>))
            /\ Strip(line) # <<>>
    IN  [i \in 1..Len(SelectSeq(subquery_lines, keep)) |->
            RStrip(SelectSeq(subquery_lines, keep)[i], ";")]

\* the interpreter's recursion limit, scaled down
RecursionLimit == 3

\* str(query): [res, text]; H the statement objects, Q the Query objects, depth
\* the number of nested __str__ calls still allowed
RECURSIVE Query_str(_, _, _, _)
RECURSIVE ForeachLines(_, _, _, _)
ForeachLines(H, Q, fs, depth) ==
    IF fs = <<>> THEN [res |-> "ok", lines |-> <<>>]
    ELSE LET sub == Query_str(H, Q, Head(fs)[2], depth - 1)
             subquery_elements == get_subquery_elements(sub.text)
             block ==
                 IF subquery_elements = <<>> THEN <<>>
                 ELSE <<<<".">> \o Head(fs)[1] \o <<" ", "foreach", " ", "{">>>>
                      \o [i \in 1..Len(subquery_elements) |->
                             <<" ", " ">> \o subquery_elements[i] \o <<";">>]
                      \o <<<<"}", ";">>>>
         IN  IF sub.res # "ok" THEN [res |-> sub.res, lines |-> <<>>]
             ELSE LET rest == ForeachLines(H, Q, Tail(fs), depth)
                  IN  IF rest.res # "ok" THEN rest
                      ELSE [res |-> "ok", lines |-> block \o rest.lines]

Query_str(H, Q, q, depth) ==
    IF depth <= 0 THEN [res |-> "RecursionError", text |-> <<>>]
    ELSE IF ~validate_query(Q[q]) THEN [res |-> "ValueError", text |-> <<>>]
    ELSE LET qr == Q[q]
             foreach == ForeachLines(H, Q, qr.foreach_statements, depth)
             query_lines == DocumentLines(H, qr, foreach.lines)
         IN  IF foreach.res # "ok" THEN [res |-> foreach.res, text |-> <<>>]
             ELSE [res |-> "ok",
                   text |-> Join(<<"\n">>,
                                 IF query_lines = <<>>
                                 THEN << <<"[", "out", ":", "json", "]", ";">>,
                                         <<"out", " ", "body", ";">> >>
                                 ELSE query_lines)]

-----------------------------------------------------------------------------
(* The query-execution client.  The cache is a dict from rendered text to  *)
(* the Result the API returned for it, held as its items in insertion      *)
(* order.  A Result object is the number of the answer that carried it, so *)
(* that two Result objects are the same object exactly when the numbers    *)
(* are equal.                                                              *)

\* QueryClient(max_retries=, retry_delay=): an empty cache and no call of
\* execute_query so far.  query_str, use_cache and attempt are the locals of
\* the call of execute_query in progress, requests the calls of api.query it
\* has made and returned the value it returned; served counts the answers
\* the API has given this client.
QueryClient_init(max_retries, retry_delay) ==
    [max_retries |-> max_retries, retry_delay |-> retry_delay, cache |-> <<>>,
     pc |-> "idle", query_str |-> <<>>, use_cache |-> FALSE, attempt |-> 0,
     requests |-> 0, served |-> 0, returned |-> None]

\* query_str in self._cache
InCache(cache, query_str) == \E i \in DOMAIN cache : cache[i].key = query_str

\* self._cache[query_str]
CacheGet(cache, query_str) ==
    cache[CHOOSE i \in DOMAIN cache : cache[i].key = query_str].value

\* self._cache[query_str] = result
CacheSet(cache, query_str, result) ==
    IF InCache(cache, query_str)
    THEN [i \in DOMAIN cache |->
             IF cache[i].key = query_str THEN [cache[i] EXCEPT !.value = result]
             ELSE cache[i]]
    ELSE Append(cache, [key |-> query_str, value |-> result])

\* what api.query does with one request: it returns a Result or raises one of
\* the library's exceptions or any other exception
ApiOutcomes ==
    {"Result", "OverpassBadRequest", "OverpassTooManyRequests",
     "OverpassGatewayTimeout", "Exception"}

\* the exceptions of the retried branches, with the error each raises after
\* the last attempt
Transient ==
    [OverpassTooManyRequests |-> "OverpassRateLimitError",
     OverpassGatewayTimeout |-> "OverpassTimeoutError"]

\* time.sleep(secs) raises ValueError for a negative argument
sleep_raises(secs) == secs < 0

\* execute_query from its first line to the first request: [res, self], res
\* "running" when the retry loop has been entered.  return_raw is False.
execute_query(self, rendered, use_cache) ==
    LET call == [self EXCEPT !.query_str = rendered.text, !.use_cache = use_cache,
                             !.attempt = 0, !.requests = 0, !.returned = None]
    IN  IF rendered.res # "ok" THEN [res |-> rendered.res, self |-> call]
        ELSE IF use_cache /\ InCache(self.cache, rendered.text)
        THEN [res |-> "ok",
              self |-> [call EXCEPT !.returned =
                                        Some(CacheGet(self.cache, rendered.text))]]
        ELSE IF self.max_retries + 1 <= 0 THEN [res |-> "ok", self |-> call]
        ELSE [res |-> "running", self |-> [call EXCEPT !.pc = "query"]]

\* one pass of the retry loop that treats a bad request as transient too
attempt_query_RetriesBadRequest(self, outcome) ==
    LET asked == [self EXCEPT !.requests = @ + 1]
        ended == [asked EXCEPT !.pc = "idle"]
    IN  IF outcome = "Result"
        THEN [res |-> "ok",
              self |-> [ended EXCEPT
                           !.served = @ + 1,
                           !.returned = Some(self.served + 1),
                           !.cache = IF self.use_cache
                                     THEN CacheSet(@, self.query_str, self.served + 1)
                                     ELSE @]]
        ELSE IF outcome \in DOMAIN Transient \cup {"OverpassBadRequest"}
        THEN IF self.attempt = self.max_retries
             THEN [res |-> IF outcome = "OverpassBadRequest" THEN "OverpassSyntaxError"
                           ELSE Transient[outcome],
                   self |-> ended]
             ELSE IF sleep_raises(self.retry_delay)
             THEN [res |-> "ValueError", self |-> ended]
             ELSE [res |-> "running", self |-> [asked EXCEPT !.attempt = @ + 1]]
        ELSE [res |-> "OverpassError", self |-> ended]

\* one pass of a retry loop of max_retries + 2 passes
attempt_query_OneMore(self, outcome) ==
    LET asked == [self EXCEPT !.requests = @ + 1]
        ended == [asked EXCEPT !.pc = "idle"]
    IN  IF outcome = "Result"
        THEN [res |-> "ok",
              self |-> [ended EXCEPT
                           !.served = @ + 1,
                           !.returned = Some(self.served + 1),
                           !.cache = IF self.use_cache
                                     THEN CacheSet(@, self.query_str, self.served + 1)
                                     ELSE @]]
        ELSE IF outcome = "OverpassBadRequest"
        THEN [res |-> "OverpassSyntaxError", self |-> ended]
        ELSE IF outcome \in DOMAIN Transient
        THEN IF self.attempt = self.max_retries + 1
             THEN [res |-> Transient[outcome], self |-> ended]
             ELSE IF sleep_raises(self.retry_delay)
             THEN [res |-> "ValueError", self |-> ended]
             ELSE [res |-> "running", self |-> [asked EXCEPT !.attempt = @ + 1]]
        ELSE [res |-> "OverpassError", self |-> ended]

\* one pass of the retry loop of execute_query, api.query answering with
\* outcome: [res, self], res "running" when another pass follows
attempt_query(self, outcome) ==
    LET asked == [self EXCEPT !.requests = @ + 1]
        ended == [asked EXCEPT !.pc = "idle"]
        result == self.served + 1
    IN  IF outcome = "Result"
        THEN [res |-> "ok",
              self |-> [ended EXCEPT
                           !.served = result,
                           !.returned = Some(result),
                           !.cache = IF self.use_cache
                                     THEN CacheSet(@, self.query_str, result)
                                     ELSE @]]
        ELSE IF outcome = "OverpassBadRequest"
        THEN [res |-> "OverpassSyntaxError", self |-> ended]
        ELSE IF outcome \in DOMAIN Transient
        THEN IF self.attempt = self.max_retries
             THEN [res |-> Transient[outcome], self |-> ended]
             ELSE IF sleep_raises(self.retry_delay)
             THEN [res |-> "ValueError", self |-> ended]
             ELSE [res |-> "running", self |-> [asked EXCEPT !.attempt = @ + 1]]
        ELSE [res |-> "OverpassError", self |-> ended]

\* a clear_cache that leaves the cache as it is
clear_cache_Keeps(self) == self

\* clear_cache
clear_cache(self) == [self EXCEPT !.cache = <<>>]

-----------------------------------------------------------------------------
(* The calls a caller makes.  Every action is one call of one method: the  *)
(* object's fields become what the method left, ret records the method and *)
(* whether it raised.                                                      *)

NodeWayRelation == {"node", "way", "relation"}

\* a builder call on statement object s with outcome r
ElemCall(s, name, r) ==
    /\ budget > 0
    /\ budget' = budget - 1
    /\ el' = [el EXCEPT ![s] = r.e]
    /\ ret' = [op |-> name, obj |-> "statement", on |-> s,
               res |-> IF r.err THEN "ValueError" ELSE "ok"]
    /\ out' = <<>>
    /\ UNCHANGED <<qs, tm, reg, client>>

WithId(s, id) == ElemCall(s, "with_id", with_id(el[s], id))

WithIds(s, ids) == ElemCall(s, "with_ids", with_ids(el[s], ids))

WithPivot(s, name) == ElemCall(s, "with_pivot", with_pivot(el[s], name))

FromSet(s, name) == ElemCall(s, "from_set", from_set(el[s], name))

StoreAsSet(s, name) == ElemCall(s, "store_as_set", store_as_set(el[s], name))

WithTags(s, tags) == ElemCall(s, "with_tags", with_tags(el[s], tags))

WithTagExists(s, key) == ElemCall(s, "with_tag_exists", with_tag_exists(el[s], key))

WithTagNotExists(s, key) ==
    ElemCall(s, "with_tag_not_exists", with_tag_not_exists(el[s], key))

WithTagNot(s, key, value) ==
    ElemCall(s, "with_tag_not", with_tag_not(el[s], key, value))

WithTagRegex(s, key, regex) ==
    ElemCall(s, "with_tag_regex", with_tag_regex(el[s], key, regex))

WithTagCondition(s, condition) ==
    ElemCall(s, "with_tag_condition", with_tag_condition(el[s], condition))

WithIfCondition(s, condition) ==
    ElemCall(s, "with_if_condition", with_if_condition(el[s], condition))

WithUser(s, username) ==
    /\ el[s].kind # "area"
    /\ ElemCall(s, "with_user", with_user(el[s], username))

WithUid(s, uid) ==
    /\ el[s].kind # "area"
    /\ ElemCall(s, "with_uid", with_uid(el[s], uid))

WithNewer(s, timestamp) ==
    /\ el[s].kind \in NodeWayRelation
    /\ ElemCall(s, "with_newer", with_newer(el[s], timestamp))

WithVersion(s, version) ==
    /\ el[s].kind \in NodeWayRelation
    /\ ElemCall(s, "with_version", with_version(el[s], version))

WithBbox(s, bbox) ==
    /\ el[s].kind # "area"
    /\ ElemCall(s, "with_bbox", with_bbox(el[s], bbox))

WithAreaById(s, area_id) ==
    /\ el[s].kind \in NodeWayRelation
    /\ ElemCall(s, "with_area_by_id", with_area_by_id(el[s], area_id))

WithAreaByName(s, area_name) ==
    /\ el[s].kind \in NodeWayRelation
    /\ ElemCall(s, "with_area_by_name", with_area_by_name(el[s], area_name))

WithAroundPoint(s, radius, lat, lon) ==
    /\ el[s].kind \in NodeWayRelation
    /\ ElemCall(s, "with_around_point", with_around_point(el[s], radius, lat, lon))

WithAroundSet(s, name, radius) ==
    /\ el[s].kind \in NodeWayRelation
    /\ ElemCall(s, "with_around_set", with_around_set(el[s], name, radius))

WithNode(s, node_id) ==
    /\ el[s].kind \in {"way", "relation"}
    /\ ElemCall(s, "with_node", with_node(el[s], node_id))

WithNodeFromSet(s, name) ==
    /\ el[s].kind \in {"way", "relation"}
    /\ ElemCall(s, "with_node_from_set", with_node_from_set(el[s], name))

WithWay(s, way_id) ==
    /\ el[s].kind \in {"node", "relation"}
    /\ ElemCall(s, "with_way", with_way(el[s], way_id))

WithWayFromSet(s, name) ==
    /\ el[s].kind \in {"node", "relation"}
    /\ ElemCall(s, "with_way_from_set", with_way_from_set(el[s], name))

WithRelation(s, relation_id) ==
    /\ el[s].kind \in NodeWayRelation
    /\ ElemCall(s, "with_relation", with_relation(el[s], relation_id))

WithRelationAndRole(s, relation_id, role) ==
    /\ el[s].kind \in NodeWayRelation
    /\ ElemCall(s, "with_relation_and_role",
                with_relation_and_role(el[s], relation_id, role))

WithRelationFromSet(s, name) ==
    /\ el[s].kind \in NodeWayRelation
    /\ ElemCall(s, "with_relation_from_set", with_relation_from_set(el[s], name))

WithClosed(s, is_closed) ==
    /\ el[s].kind = "way"
    /\ ElemCall(s, "with_closed", with_closed(el[s], is_closed))

WithMinLength(s, length) ==
    /\ el[s].kind = "way"
    /\ ElemCall(s, "with_min_length", with_min_length(el[s], length))

WithMinNodes(s, node_count) ==
    /\ el[s].kind = "way"
    /\ ElemCall(s, "with_min_nodes", with_min_nodes(el[s], node_count))

WithType(s, relation_type) ==
    /\ el[s].kind = "relation"
    /\ ElemCall(s, "with_type", with_type(el[s], relation_type))

WithMinMembers(s, count) ==
    /\ el[s].kind = "relation"
    /\ ElemCall(s, "with_min_members", with_min_members(el[s], count))

WithMinRoleCount(s, role, count) ==
    /\ el[s].kind = "relation"
    /\ ElemCall(s, "with_min_role_count", with_min_role_count(el[s], role, count))

\* Way.with_nodes, Relation.with_members
WithChildren(s) ==
    /\ el[s].kind \in {"way", "relation"}
    /\ ElemCall(s, "with_children", with_children(el[s]))

WithParents(s) ==
    /\ el[s].kind \in {"way", "relation"}
    /\ ElemCall(s, "with_parents", with_parents(el[s]))

WithOpen(s, is_open) ==
    /\ el[s].kind = "changeset"
    /\ ElemCall(s, "with_open", with_open(el[s], is_open))

WithTime(s, timestamp) ==
    /\ el[s].kind = "changeset"
    /\ ElemCall(s, "with_time", with_time(el[s], timestamp))

WithTimeRange(s, start_time, end_time) ==
    /\ el[s].kind = "changeset"
    /\ ElemCall(s, "with_time_range", with_time_range(el[s], start_time, end_time))

WithComment(s, comment) ==
    /\ el[s].kind = "changeset"
    /\ ElemCall(s, "with_comment", with_comment(el[s], comment))

WithCreatedBy(s, editor) ==
    /\ el[s].kind = "changeset"
    /\ ElemCall(s, "with_created_by", with_created_by(el[s], editor))

WithBoundary(s, boundary) ==
    /\ el[s].kind = "area"
    /\ ElemCall(s, "with_boundary", with_boundary(el[s], boundary))

WithName(s, name) ==
    /\ el[s].kind = "area"
    /\ ElemCall(s, "with_name", with_name(el[s], name))

\* str(statement): changes no field, returns the text
StrElement(s) ==
    /\ out' = Element_str(el[s])
    /\ ret' = [op |-> "str", obj |-> "statement", on |-> s, res |-> "ok"]
    /\ UNCHANGED <<el, qs, tm, reg, client, budget>>

\* the registration log of a Query: what the add_* calls that returned have
\* registered, section by section, and the sections in call order
EmptyLog ==
    [order |-> <<>>, is_in |-> <<>>, statement |-> <<>>, foreach |-> <<>>,
     convert |-> <<>>]

\* a registration: the section and what was registered
Logged(sec, v) == Some([sec |-> sec, v |-> v])

\* a builder call on Query object q with outcome r; entry is what an add_*
\* call registers when it returns
QueryCall(q, name, r, entry) ==
    /\ budget > 0
    /\ budget' = budget - 1
    /\ qs' = r.e
    /\ ret' = [op |-> name, obj |-> "query", on |-> q,
               res |-> IF r.err THEN "ValueError" ELSE "ok"]
    /\ out' = <<>>
    /\ reg' = IF r.err \/ entry = None THEN reg
              ELSE [reg EXCEPT ![q].order = Append(@, entry[1].sec),
                               ![q][entry[1].sec] = Append(@, entry[1].v)]
    /\ UNCHANGED <<el, tm, client>>

WithOutput(q, output) == QueryCall(q, "with_output", with_output(qs, q, output), None)

WithOutputDetail(q, detail) ==
    QueryCall(q, "with_output_detail", with_output_detail(qs, q, detail), None)

WithTimeout(q, timeout) ==
    QueryCall(q, "with_timeout", with_timeout(qs, q, timeout), None)

WithDate(q, date) == QueryCall(q, "with_date", with_date(qs, q, date), None)

WithGlobalBbox(q, bbox) ==
    QueryCall(q, "with_global_bbox", with_global_bbox(qs, q, bbox), None)

WithSortOrder(q, sort_order) ==
    QueryCall(q, "with_sort_order", with_sort_order(qs, q, sort_order), None)

WithLimit(q, limit) == QueryCall(q, "with_limit", with_limit(qs, q, limit), None)

WithOutputMode(q, mode) ==
    QueryCall(q, "with_output_mode", with_output_mode(qs, q, mode), None)

WithSetting(q, key, value) ==
    QueryCall(q, "with_setting", with_setting(qs, q, key, value), None)

\* add_node, add_way, add_relation, add_changeset, add_area
AddElement(q, s) ==
    QueryCall(q, "add_element", add_element(qs, q, s),
              Logged("statement", ElemEntry(s)))

AddUnion(q, elements) ==
    QueryCall(q, "add_union", add_union(qs, q, elements),
              Logged("statement",
                     UnionEntry([i \in 1..Len(elements) |-> ElemEntry(elements[i])])))

AddDifference(q, base, subtract) ==
    QueryCall(q, "add_difference", add_difference(qs, q, base, subtract),
              Logged("statement",
                     DifferenceEntry(ElemEntry(base),
                         [i \in 1..Len(subtract) |-> ElemEntry(subtract[i])])))

AddIsIn(q, lat, lon, set_name) ==
    QueryCall(q, "add_is_in", add_is_in(qs, q, lat, lon, set_name),
              Logged("is_in", <<lat, lon, set_name>>))

AddForeach(q, set_name, subquery) ==
    QueryCall(q, "add_foreach", add_foreach(qs, q, set_name, subquery),
              Logged("foreach", <<set_name, subquery>>))

AddConvert(q, element_type, set_name, tags) ==
    QueryCall(q, "add_convert", add_convert(qs, q, element_type, set_name, tags),
              Logged("convert", <<element_type, set_name, tags>>))

AddRaw(q, raw_statement) ==
    QueryCall(q, "add_raw", add_raw(qs, q, raw_statement),
              Logged("statement", RawEntry(raw_statement)))

UnionWith(q, other) == QueryCall(q, "union_with", union_with(qs, q, other), None)

DifferenceWith(q, other) ==
    QueryCall(q, "difference_with", difference_with(qs, q, other), None)

\* a str(query) that clears the output detail of the Query it has rendered
StrQuery_ClearsDetail(q) ==
    LET r == Query_str(el, qs, q, RecursionLimit)
    IN  /\ ret' = [op |-> "str", obj |-> "query", on |-> q, res |-> r.res]
        /\ out' = r.text
        /\ qs' = [qs EXCEPT ![q].output_detail = None]
        /\ UNCHANGED <<el, tm, reg, client, budget>>

\* str(query): no field changes, out is the text returned, empty when it raises
StrQuery(q) ==
    LET r == Query_str(el, qs, q, RecursionLimit)
    IN  /\ ret' = [op |-> "str", obj |-> "query", on |-> q, res |-> r.res]
        /\ out' = r.text
        /\ UNCHANGED <<el, qs, tm, reg, client, budget>>

\* a constructor call of a temporal statement with outcome r: the object
\* exists only when the constructor returned
TemporalNew(name, s, r) ==
    /\ budget > 0
    /\ budget' = budget - 1
    /\ tm' = IF r.err = "ok" THEN Append(tm, r.e) ELSE tm
    /\ ret' = [op |-> name, obj |-> "temporal", on |-> s, res |-> r.err]
    /\ out' = <<>>
    /\ UNCHANGED <<el, qs, reg, client>>

NewTimeline(s) == TemporalNew("Timeline", s, Timeline_init(el, s))

NewRecurse(direction, set_name) ==
    TemporalNew("Recurse", 0, Recurse_init(direction, set_name))

\* str(timeline), str(recurse)
StrTemporal(i) ==
    /\ out' = IF tm[i].t = "timeline" THEN Timeline_str(el, tm[i])
              ELSE Recurse_str(tm[i])
    /\ ret' = [op |-> "str", obj |-> "temporal", on |-> i, res |-> "ok"]
    /\ UNCHANGED <<el, qs, tm, reg, client, budget>>

\* client.execute_query(query, use_cache): the call up to its first request
ExecuteQuery(q, use_cache) ==
    LET r == execute_query(client, Query_str(el, qs, q, RecursionLimit), use_cache)
    IN  /\ client.pc = "idle"
        /\ budget > 0
        /\ budget' = budget - 1
        /\ client' = r.self
        /\ ret' = [op |-> "execute_query", obj |-> "client", on |-> q, res |-> r.res]
        /\ out' = <<>>
        /\ UNCHANGED <<el, qs, tm, reg>>

\* the call of execute_query in progress makes one request and handles the
\* answer
ApiQuery(outcome) ==
    LET r == attempt_query(client, outcome)
    IN  /\ client.pc = "query"
        /\ client' = r.self
        /\ ret' = [ret EXCEPT !.res = r.res]
        /\ UNCHANGED <<el, qs, tm, out, reg, budget>>

\* client.clear_cache()
ClearCache ==
    /\ client.pc = "idle"
    /\ budget > 0
    /\ budget' = budget - 1
    /\ client' = clear_cache(client)
    /\ ret' = [op |-> "clear_cache", obj |-> "client", on |-> 0, res |-> "ok"]
    /\ out' = <<>>
    /\ UNCHANGED <<el, qs, tm, reg>>

-----------------------------------------------------------------------------
(* Specifications of one statement under construction *)

NoCall == [op |-> "init", obj |-> "none", on |-> 0, res |-> "ok"]

\* one freshly constructed statement of one of the kinds, no Query
ElemInit(kinds, calls) ==
    /\ el \in {[s \in {1} |-> NewElement(k)] : k \in kinds}
    /\ qs = <<>>
    /\ tm = <<>>
    /\ ret = NoCall
    /\ out = <<>>
    /\ reg = <<>>
    /\ client = QueryClient_init(3, 5)
    /\ budget = calls

\* the arguments the caller passes
IdInputs == {-1, 0, 1, 24}
IdsInputs == {<<>>, <<0>>, <<1, 24>>, <<1, -1>>}
NameInputs == {<<"a">>, <<"a", ";">>, <<" ">>}
KeyInputs == {<<"k">>, <<"h">>, <<" ">>}
ValueInputs == {<<"v">>, <<" ">>}
BboxInputs == {<<-90, -180, 90, 180>>, <<0, 0, 0, 0>>, <<1, 0, 0, 1>>}
MemberIdInputs == {-1, 0, 1}
PointInputs == {<<10, 0, 0>>, <<-1, 0, 0>>, <<10, 91, 0>>}
RadiusInputs == {10, -1}
RoleInputs == {<<"r">>, <<" ">>}

(* identifier selection *)
InitId == ElemInit(Kinds, MaxCalls)

NextId ==
    \/ \E s \in DOMAIN el, id \in IdInputs : WithId(s, id)
    \/ \E s \in DOMAIN el, ids \in IdsInputs : WithIds(s, ids)

SpecId == InitId /\ [][NextId]_vars

(* spatial filters *)
InitSpatial == ElemInit(NodeWayRelation, MaxCalls)

NextSpatial ==
    \/ \E s \in DOMAIN el, bbox \in BboxInputs : WithBbox(s, bbox)
    \/ \E s \in DOMAIN el, id \in MemberIdInputs : WithAreaById(s, id)
    \/ \E s \in DOMAIN el, name \in NameInputs : WithAreaByName(s, name)
    \/ \E s \in DOMAIN el, p \in PointInputs : WithAroundPoint(s, p[1], p[2], p[3])
    \/ \E s \in DOMAIN el, name \in NameInputs, r \in RadiusInputs :
          WithAroundSet(s, name, r)

SpecSpatial == InitSpatial /\ [][NextSpatial]_vars

(* membership filters *)
InitMember == ElemInit(NodeWayRelation, MaxCalls)

NextMember ==
    \/ \E s \in DOMAIN el, id \in MemberIdInputs : WithNode(s, id)
    \/ \E s \in DOMAIN el, name \in NameInputs : WithNodeFromSet(s, name)
    \/ \E s \in DOMAIN el, id \in MemberIdInputs : WithWay(s, id)
    \/ \E s \in DOMAIN el, name \in NameInputs : WithWayFromSet(s, name)
    \/ \E s \in DOMAIN el, id \in MemberIdInputs : WithRelation(s, id)
    \/ \E s \in DOMAIN el, id \in MemberIdInputs, role \in RoleInputs :
          WithRelationAndRole(s, id, role)
    \/ \E s \in DOMAIN el, name \in NameInputs : WithRelationFromSet(s, name)

SpecMember == InitMember /\ [][NextMember]_vars

(* tag filters *)
InitTags == ElemInit(Kinds, MaxCalls)

NextTags ==
    \/ \E s \in DOMAIN el, key \in KeyInputs : WithTagExists(s, key)
    \/ \E s \in DOMAIN el, key \in KeyInputs : WithTagNotExists(s, key)
    \/ \E s \in DOMAIN el, key \in KeyInputs, v \in ValueInputs : WithTagNot(s, key, v)
    \/ \E s \in DOMAIN el, key \in KeyInputs, v \in ValueInputs : WithTagRegex(s, key, v)
    \/ \E s \in DOMAIN el : StrElement(s)

SpecTags == InitTags /\ [][NextTags]_vars

(* recursion flags and the store-as-set suffix of a Way or Relation *)
InitWrap == ElemInit({"way", "relation"}, MaxCalls)

NextWrap ==
    \/ \E s \in DOMAIN el : WithChildren(s)
    \/ \E s \in DOMAIN el : WithParents(s)
    \/ \E s \in DOMAIN el, name \in NameInputs : StoreAsSet(s, name)
    \/ \E s \in DOMAIN el, id \in MemberIdInputs : WithId(s, id)
    \/ \E s \in DOMAIN el, key \in KeyInputs : WithTagExists(s, key)
    \/ \E s \in DOMAIN el : StrElement(s)

SpecWrap == InitWrap /\ [][NextWrap]_vars

(* raw tag conditions *)
CondComparison ==
    { <<"[", "k", ">", "5", "]">>, <<"[", "k", ">", "=", "5", "]">>,
      <<"[", "k", "<", "=", "5", "]">> }
CondQuoted ==
    { <<"[", "k", "=", "\"", "v", "\"", "]">>,
      <<"[", "k", "!", "=", "\"", "v", "\"", "]">>,
      <<"[", "k", "~", "\"", "v", "\"", "]">> }
CondMalformed ==
    { <<"k", "=", "\"", "v", "\"">>, <<"[", "\"", "key", "\"", "]">>,
      <<"[", "\"", "key", "\"", "=", "value", "]">> }
CondInputs == CondComparison \cup CondQuoted \cup CondMalformed

InitCond == ElemInit(Kinds, MaxCallsDoc)

NextCond ==
    \/ \E s \in DOMAIN el, c \in CondInputs : WithTagCondition(s, c)
    \/ \E s \in DOMAIN el : StrElement(s)

SpecCond == InitCond /\ [][NextCond]_vars

(* temporal statements over one statement object *)
DirectionInputs == {<<">", ">">>, <<"<", "<">>, <<">">>}
SetNameInputs == {None, Some(<<"a">>), Some(<<"a", ";">>), Some(<<" ">>)}

InitTemporal == ElemInit(Kinds, MaxCalls)

NextTemporal ==
    \/ \E s \in DOMAIN el, id \in {-1, 0, 24} : WithId(s, id)
    \/ \E s \in DOMAIN el, ids \in {<<>>, <<24, 25>>} : WithIds(s, ids)
    \/ \E s \in DOMAIN el : NewTimeline(s)
    \/ \E d \in DirectionInputs, name \in SetNameInputs : NewRecurse(d, name)
    \/ \E i \in DOMAIN tm : StrTemporal(i)

SpecTemporal == InitTemporal /\ [][NextTemporal]_vars

-----------------------------------------------------------------------------
(* Specifications of Query objects under construction *)

\* the statement objects the caller built beforehand: node[k]; and
\* (way(1);<);
Stmts ==
    << with_tag_exists(NewElement("node"), <<"k">>).e,
       with_parents(with_id(NewElement("way"), 1).e).e >>

\* freshly constructed Query objects and the statements to add to them
QueryInit(calls) ==
    /\ el = Stmts
    /\ qs = [q \in QIds |-> NewQuery]
    /\ tm = <<>>
    /\ ret = NoCall
    /\ out = <<>>
    /\ reg = [q \in QIds |-> EmptyLog]
    /\ client = QueryClient_init(3, 5)
    /\ budget = calls

IsInInputs == {<<0, 0, None>>, <<1, 1, Some(<<"a">>)>>, <<91, 0, None>>}
RawInputs == {<<"x", ";", ";">>, <<"y", ";", " ">>, <<"w", ";">>, <<"z">>}
ForeachNames == {<<"a">>, <<"a", ";">>}
ConvertInputs == {<<<<"node">>, <<"a">>, << <<"t">> >> >>, <<<<"area">>, <<"a">>, <<>>>>}
TimeoutInputs == {0, 25}
DetailInputs == {None, Some(<<"body">>), Some(<<"skel">>), Some(<<"full">>)}

(* the sections of the rendered document *)
InitDoc == QueryInit(MaxCallsDoc)

NextDoc ==
    \/ \E q \in DOMAIN qs, t \in TimeoutInputs : WithTimeout(q, t)
    \/ \E q \in DOMAIN qs, d \in {None, Some(<<"skel">>)} : WithOutputDetail(q, d)
    \/ \E q \in DOMAIN qs, i \in IsInInputs : AddIsIn(q, i[1], i[2], i[3])
    \/ \E q \in DOMAIN qs, s \in DOMAIN el : AddElement(q, s)
    \/ \E q \in DOMAIN qs, raw \in RawInputs : AddRaw(q, raw)
    \/ \E q \in DOMAIN qs, name \in ForeachNames, sub \in DOMAIN qs :
          AddForeach(q, name, sub)
    \/ \E q \in DOMAIN qs, c \in ConvertInputs : AddConvert(q, c[1], c[2], c[3])
    \/ \E q \in DOMAIN qs : StrQuery(q)

SpecDoc == InitDoc /\ [][NextDoc]_vars

ModeInputs == {None, Some(<<"count">>), Some(<<"ids">>), Some(<<"all">>)}
SortInputs == {<<"qt">>, <<"up">>}
LimitInputs == {0, 5}

(* the output configuration *)
InitOut == QueryInit(MaxCalls)

NextOut ==
    \/ \E q \in DOMAIN qs, m \in ModeInputs : WithOutputMode(q, m)
    \/ \E q \in DOMAIN qs, o \in SortInputs : WithSortOrder(q, o)
    \/ \E q \in DOMAIN qs, n \in LimitInputs : WithLimit(q, n)
    \/ \E q \in DOMAIN qs, d \in DetailInputs : WithOutputDetail(q, d)
    \/ \E q \in DOMAIN qs, sub \in DOMAIN qs : AddForeach(q, <<"a">>, sub)
    \/ \E q \in DOMAIN qs : StrQuery(q)

SpecOut == InitOut /\ [][NextOut]_vars

(* the output directive after the other sections *)
InitLast == QueryInit(MaxCalls)

NextLast ==
    \/ \E q \in DOMAIN qs, m \in {None, Some(<<"count">>), Some(<<"ids">>)} :
          WithOutputMode(q, m)
    \/ \E q \in DOMAIN qs : WithSortOrder(q, <<"qt">>)
    \/ \E q \in DOMAIN qs : WithLimit(q, 5)
    \/ \E q \in DOMAIN qs, d \in {None, Some(<<"skel">>)} : WithOutputDetail(q, d)
    \/ \E q \in DOMAIN qs, s \in DOMAIN el : AddElement(q, s)
    \/ \E q \in DOMAIN qs : AddConvert(q, <<"node">>, <<"a">>, << <<"t">> >>)
    \/ \E q \in DOMAIN qs : StrQuery(q)

SpecLast == InitLast /\ [][NextLast]_vars

(* composite statements *)
InitComp == QueryInit(MaxCallsDoc)

NextComp ==
    \/ \E q \in DOMAIN qs, s \in DOMAIN el : AddElement(q, s)
    \/ \E q \in DOMAIN qs, ss \in {<<>>, <<1>>, <<1, 2>>} : AddUnion(q, ss)
    \/ \E q \in DOMAIN qs, ss \in {<<>>, <<2>>} : AddDifference(q, 1, ss)
    \/ \E q \in DOMAIN qs, other \in DOMAIN qs : UnionWith(q, other)
    \/ \E q \in DOMAIN qs, other \in DOMAIN qs : DifferenceWith(q, other)
    \/ \E q \in DOMAIN qs : StrQuery(q)

SpecComp == InitComp /\ [][NextComp]_vars

(* two Query objects built over two Node objects *)
InitRender ==
    /\ el = <<NewElement("node"), NewElement("node")>>
    /\ qs = [q \in QIds |-> NewQuery]
    /\ tm = <<>>
    /\ ret = NoCall
    /\ out = <<>>
    /\ reg = [q \in QIds |-> EmptyLog]
    /\ client = QueryClient_init(3, 5)
    /\ budget = MaxCalls

NextRender ==
    \/ \E s \in DOMAIN el : WithTagExists(s, <<"k">>)
    \/ \E q \in DOMAIN qs, s \in DOMAIN el : AddElement(q, s)
    \/ \E q \in DOMAIN qs, other \in DOMAIN qs : UnionWith(q, other)
    \/ \E q \in DOMAIN qs, sub \in DOMAIN qs : AddForeach(q, <<"a">>, sub)
    \/ \E q \in DOMAIN qs, key \in {<<"a">>, <<"b">>} : WithSetting(q, key, <<"1">>)
    \/ \E q \in DOMAIN qs : WithOutputDetail(q, Some(<<"skel">>))
    \/ \E q \in DOMAIN qs : StrQuery(q)

SpecRender == InitRender /\ [][NextRender]_vars

(* bounding boxes of a statement and of the Query objects *)
BboxAccepted == {<<-90, -180, 90, 180>>, <<0, 0, 0, 0>>, <<1, 2, 3, 4>>}
BboxRefused ==
    {<<1, 0, 0, 1>>, <<0, 1, 1, 0>>, <<-91, 0, 0, 0>>, <<0, 0, 91, 0>>,
     <<0, -181, 0, 0>>, <<0, 0, 0, 181>>}

InitBbox ==
    /\ el \in {[s \in {1} |-> NewElement(k)] :
                  k \in {"node", "way", "relation", "changeset"}}
    /\ qs = [q \in QIds |-> NewQuery]
    /\ tm = <<>>
    /\ ret = NoCall
    /\ out = <<>>
    /\ reg = [q \in QIds |-> EmptyLog]
    /\ client = QueryClient_init(3, 5)
    /\ budget = MaxCalls

NextBbox ==
    \/ \E s \in DOMAIN el, b \in BboxAccepted \cup BboxRefused : WithBbox(s, b)
    \/ \E q \in DOMAIN qs, b \in BboxAccepted \cup BboxRefused : WithGlobalBbox(q, b)
    \/ \E s \in DOMAIN el : StrElement(s)
    \/ \E q \in DOMAIN qs : StrQuery(q)

SpecBbox == InitBbox /\ [][NextBbox]_vars

(* the clauses of one statement: one setter per position of the text *)
InitOrder == ElemInit(Kinds, MaxCalls)

NextOrder ==
    \/ \E s \in DOMAIN el : FromSet(s, <<"a">>)
    \/ \E s \in DOMAIN el : WithId(s, 24)
    \/ \E s \in DOMAIN el : WithIds(s, <<24, 25>>)
    \/ \E s \in DOMAIN el : WithPivot(s, <<"p">>)
    \/ \E s \in DOMAIN el, key \in {<<"k">>, <<"h">>} : WithTagExists(s, key)
    \/ \E s \in DOMAIN el :
          WithTagCondition(s, <<"[", "k", "=", "\"", "v", "\"", "]">>)
    \/ \E s \in DOMAIN el : WithIfCondition(s, <<"c">>)
    \/ \E s \in DOMAIN el : WithMinNodes(s, 1)
    \/ \E s \in DOMAIN el : WithMinMembers(s, 1)
    \/ \E s \in DOMAIN el :
          WithTimeRange(s, <<"1", "T", "2", "Z">>, <<"1", "T", "2", "Z">>)
    \/ \E s \in DOMAIN el : WithBbox(s, <<1, 2, 3, 4>>)
    \/ \E s \in DOMAIN el : WithNode(s, 1)
    \/ \E s \in DOMAIN el, id \in {0, 1} : WithWay(s, id)
    \/ \E s \in DOMAIN el : WithRelation(s, 1)
    \/ \E s \in DOMAIN el : StoreAsSet(s, <<"b">>)
    \/ \E s \in DOMAIN el : StrElement(s)

SpecOrder == InitOrder /\ [][NextOrder]_vars

(* foreach blocks: three Query objects, so that a sub-query can have a *)
(* sub-query of its own                                                  *)
ForeachRaws == {<<"x", ";", ";">>, <<"out", ";">>, <<"out", " ", "ids", ";">>}

InitForeach ==
    /\ el = Stmts
    /\ qs = [q \in 1..3 |-> NewQuery]
    /\ tm = <<>>
    /\ ret = NoCall
    /\ out = <<>>
    /\ reg = [q \in 1..3 |-> EmptyLog]
    /\ client = QueryClient_init(3, 5)
    /\ budget = MaxCallsDoc

NextForeach ==
    \/ \E q \in DOMAIN qs : AddElement(q, 2)
    \/ \E q \in DOMAIN qs, raw \in ForeachRaws : AddRaw(q, raw)
    \/ \E q \in DOMAIN qs : AddIsIn(q, 0, 0, None)
    \/ \E q \in DOMAIN qs, sub \in DOMAIN qs : AddForeach(q, <<"a">>, sub)
    \/ \E q \in DOMAIN qs : WithOutputDetail(q, Some(<<"skel">>))
    \/ \E q \in DOMAIN qs : WithOutputMode(q, Some(<<"count">>))
    \/ \E q \in DOMAIN qs : StrQuery(q)

SpecForeach == InitForeach /\ [][NextForeach]_vars

(* the time filters of a Changeset *)
InitTime == ElemInit({"changeset"}, MaxCalls)

TimeInputs == {<<"1", "T", "2", "Z">>, <<"3", "T", "4", "Z">>, <<"1">>}

NextTime ==
    \/ \E s \in DOMAIN el, t \in TimeInputs : WithTime(s, t)
    \/ \E s \in DOMAIN el, t \in TimeInputs, u \in TimeInputs : WithTimeRange(s, t, u)
    \/ \E s \in DOMAIN el, key \in {<<"time">>, <<"k">>} :
          WithTags(s, << <<key, <<"v">>>> >>)
    \/ \E s \in DOMAIN el, key \in {<<"time">>, <<"k">>} : WithTagExists(s, key)
    \/ \E s \in DOMAIN el : WithOpen(s, TRUE)
    \/ \E s \in DOMAIN el : StrElement(s)

SpecTime == InitTime /\ [][NextTime]_vars

(* id and pivot set of an Area *)
InitArea == ElemInit({"area"}, MaxCalls)

NextArea ==
    \/ \E s \in DOMAIN el, id \in {-1, 0, 23, 24, 25} : WithId(s, id)
    \/ \E s \in DOMAIN el, ids \in IdsInputs : WithIds(s, ids)
    \/ \E s \in DOMAIN el, name \in NameInputs \cup {<<"p">>} : WithPivot(s, name)
    \/ \E s \in DOMAIN el : StrElement(s)

SpecArea == InitArea /\ [][NextArea]_vars

(* the metadata tags of a Changeset *)
InitMeta == ElemInit({"changeset"}, MaxCalls)

MetaTexts == {<<"a">>, <<"b">>, <<" ">>}

NextMeta ==
    \/ \E s \in DOMAIN el, username \in MetaTexts : WithUser(s, username)
    \/ \E s \in DOMAIN el, uid \in {-1, 1, 2} : WithUid(s, uid)
    \/ \E s \in DOMAIN el, comment \in MetaTexts : WithComment(s, comment)
    \/ \E s \in DOMAIN el, editor \in MetaTexts : WithCreatedBy(s, editor)
    \/ \E s \in DOMAIN el : WithTagExists(s, <<"user">>)
    \/ \E s \in DOMAIN el :
          WithTags(s, << <<<<"k">>, <<"v">>>>, <<<<"uid">>, <<"7">>>> >>)
    \/ \E s \in DOMAIN el : StrElement(s)

SpecMeta == InitMeta /\ [][NextMeta]_vars

(* difference_with on Query objects with several statements *)
\* Query 1 after add_node and add_way, Query 2 fresh
InitDiff ==
    /\ el = Stmts
    /\ qs = add_element(add_element([q \in QIds |-> NewQuery], 1, 1).e, 1, 2).e
    /\ tm = <<>>
    /\ ret = NoCall
    /\ out = <<>>
    /\ reg = [q \in QIds |->
                 IF q = 1
                 THEN [EmptyLog EXCEPT !.order = <<"statement", "statement">>,
                                       !.statement = <<ElemEntry(1), ElemEntry(2)>>]
                 ELSE EmptyLog]
    /\ client = QueryClient_init(3, 5)
    /\ budget = MaxCalls

NextDiff ==
    \/ \E q \in DOMAIN qs, s \in DOMAIN el : AddElement(q, s)
    \/ \E q \in DOMAIN qs, other \in DOMAIN qs : UnionWith(q, other)
    \/ \E q \in DOMAIN qs, other \in DOMAIN qs : DifferenceWith(q, other)
    \/ \E q \in DOMAIN qs : StrQuery(q)

SpecDiff == InitDiff /\ [][NextDiff]_vars

(* the client: two Query objects, rendered, executed and executed again *)
\* the largest max_retries a client is constructed with
MaxRetries == 2

InitClient ==
    /\ el = Stmts
    /\ qs = [q \in QIds |-> NewQuery]
    /\ tm = <<>>
    /\ ret = NoCall
    /\ out = <<>>
    /\ reg = [q \in QIds |-> EmptyLog]
    /\ client \in {QueryClient_init(n, d) : n \in -1..MaxRetries, d \in {-1, 5}}
    /\ budget = MaxCalls

\* the caller makes no other call while execute_query is running
NextClient ==
    \/ client.pc = "idle" /\ \E q \in DOMAIN qs : AddElement(q, 1)
    \/ client.pc = "idle" /\ \E q \in DOMAIN qs : WithLimit(q, 5)
    \/ client.pc = "idle" /\ \E q \in DOMAIN qs : WithOutputMode(q, Some(<<"count">>))
    \/ \E q \in DOMAIN qs, use_cache \in BOOLEAN : ExecuteQuery(q, use_cache)
    \/ \E outcome \in ApiOutcomes : ApiQuery(outcome)
    \/ ClearCache

SpecClient == InitClient /\ [][NextClient]_vars

\* api.query blocks until the answer or the failure of the request has come
SpecClientLive == SpecClient /\ WF_vars(\E outcome \in ApiOutcomes : ApiQuery(outcome))

-----------------------------------------------------------------------------
(* Specification with every operation: one statement of any kind and the   *)
(* Query objects, each argument position with a value the call accepts and *)
(* one it refuses                                                          *)

InitAll ==
    /\ el \in {[s \in {1} |-> NewElement(k)] : k \in Kinds}
    /\ qs = [q \in QIds |-> NewQuery]
    /\ tm = <<>>
    /\ ret = NoCall
    /\ out = <<>>
    /\ reg = [q \in QIds |-> EmptyLog]
    /\ client = QueryClient_init(3, 5)
    /\ budget = MaxCallsAll

Names == {<<"a">>, <<"a", ";">>}
Texts == {<<"a">>, <<" ">>}
Times == {<<"1", "T", "2", "Z">>, <<"1">>}
Conditions == {<<"[", "k", "=", "\"", "v", "\"", "]">>, <<"[", "k", "]">>, <<"k">>}
Counts == {0, 1}
Bboxes == {<<-90, -180, 90, 180>>, <<1, 0, 0, 1>>}
Points == {<<10, 0, 0>>, <<-1, 0, 0>>}
SettingInputs ==
    {<<<<"maxsize">>, <<"1000000">>>>, <<<<"maxsize">>, <<"x">>>>, <<<<" ">>, <<"x">>>>}

NextAllStatement ==
    \/ \E s \in DOMAIN el, id \in {-1, 24} : WithId(s, id)
    \/ \E s \in DOMAIN el, ids \in {<<>>, <<1>>} : WithIds(s, ids)
    \/ \E s \in DOMAIN el, name \in Names : WithPivot(s, name)
    \/ \E s \in DOMAIN el, name \in Names : FromSet(s, name)
    \/ \E s \in DOMAIN el, name \in Names : StoreAsSet(s, name)
    \/ \E s \in DOMAIN el : WithTags(s, << <<<<"k">>, <<"v">>>> >>)
    \/ \E s \in DOMAIN el, key \in Texts : WithTagExists(s, key)
    \/ \E s \in DOMAIN el, key \in Texts : WithTagNotExists(s, key)
    \/ \E s \in DOMAIN el, key \in Texts : WithTagNot(s, key, <<"v">>)
    \/ \E s \in DOMAIN el, key \in Texts : WithTagRegex(s, key, <<"v">>)
    \/ \E s \in DOMAIN el, c \in Conditions : WithTagCondition(s, c)
    \/ \E s \in DOMAIN el, c \in Texts : WithIfCondition(s, c)
    \/ \E s \in DOMAIN el, u \in Texts : WithUser(s, u)
    \/ \E s \in DOMAIN el, uid \in {-1, 1} : WithUid(s, uid)
    \/ \E s \in DOMAIN el, t \in Times : WithNewer(s, t)
    \/ \E s \in DOMAIN el, v \in Counts : WithVersion(s, v)
    \/ \E s \in DOMAIN el, b \in Bboxes : WithBbox(s, b)
    \/ \E s \in DOMAIN el, id \in {-1, 1} : WithAreaById(s, id)
    \/ \E s \in DOMAIN el, name \in Texts : WithAreaByName(s, name)
    \/ \E s \in DOMAIN el, p \in Points : WithAroundPoint(s, p[1], p[2], p[3])
    \/ \E s \in DOMAIN el, name \in Names : WithAroundSet(s, name, 10)
    \/ \E s \in DOMAIN el, id \in {-1, 1} : WithNode(s, id)
    \/ \E s \in DOMAIN el, name \in Names : WithNodeFromSet(s, name)
    \/ \E s \in DOMAIN el, id \in {-1, 1} : WithWay(s, id)
    \/ \E s \in DOMAIN el, name \in Names : WithWayFromSet(s, name)
    \/ \E s \in DOMAIN el, id \in {-1, 1} : WithRelation(s, id)
    \/ \E s \in DOMAIN el, role \in Texts : WithRelationAndRole(s, 1, role)
    \/ \E s \in DOMAIN el, name \in Names : WithRelationFromSet(s, name)
    \/ \E s \in DOMAIN el : WithClosed(s, TRUE)
    \/ \E s \in DOMAIN el, n \in {-1, 1} : WithMinLength(s, n)
    \/ \E s \in DOMAIN el, n \in Counts : WithMinNodes(s, n)
    \/ \E s \in DOMAIN el, t \in Texts : WithType(s, t)
    \/ \E s \in DOMAIN el, n \in Counts : WithMinMembers(s, n)
    \/ \E s \in DOMAIN el, n \in Counts : WithMinRoleCount(s, <<"a">>, n)
    \/ \E s \in DOMAIN el : WithChildren(s)
    \/ \E s \in DOMAIN el : WithParents(s)
    \/ \E s \in DOMAIN el : WithOpen(s, TRUE)
    \/ \E s \in DOMAIN el, t \in Times : WithTime(s, t)
    \/ \E s \in DOMAIN el, t \in Times : WithTimeRange(s, t, <<"1", "T", "2", "Z">>)
    \/ \E s \in DOMAIN el, c \in Texts : WithComment(s, c)
    \/ \E s \in DOMAIN el, c \in Texts : WithCreatedBy(s, c)
    \/ \E s \in DOMAIN el, b \in Texts : WithBoundary(s, b)
    \/ \E s \in DOMAIN el, n \in Texts : WithName(s, n)
    \/ \E s \in DOMAIN el : StrElement(s)

NextAllQuery ==
    \/ \E q \in DOMAIN qs, o \in {<<"csv">>, <<"txt">>} : WithOutput(q, o)
    \/ \E q \in DOMAIN qs, d \in {None, Some(<<"skel">>), Some(<<"full">>)} :
          WithOutputDetail(q, d)
    \/ \E q \in DOMAIN qs, t \in TimeoutInputs : WithTimeout(q, t)
    \/ \E q \in DOMAIN qs, d \in Times : WithDate(q, d)
    \/ \E q \in DOMAIN qs, b \in Bboxes : WithGlobalBbox(q, b)
    \/ \E q \in DOMAIN qs, o \in SortInputs : WithSortOrder(q, o)
    \/ \E q \in DOMAIN qs, n \in LimitInputs : WithLimit(q, n)
    \/ \E q \in DOMAIN qs, m \in {Some(<<"count">>), Some(<<"all">>)} :
          WithOutputMode(q, m)
    \/ \E q \in DOMAIN qs, kv \in SettingInputs : WithSetting(q, kv[1], kv[2])
    \/ \E q \in DOMAIN qs, s \in DOMAIN el : AddElement(q, s)
    \/ \E q \in DOMAIN qs, ss \in {<<>>, <<1>>} : AddUnion(q, ss)
    \/ \E q \in DOMAIN qs, ss \in {<<>>, <<1>>} : AddDifference(q, 1, ss)
    \/ \E q \in DOMAIN qs, i \in {<<0, 0, None>>, <<91, 0, None>>} :
          AddIsIn(q, i[1], i[2], i[3])
    \/ \E q \in DOMAIN qs, name \in ForeachNames, sub \in DOMAIN qs :
          AddForeach(q, name, sub)
    \/ \E q \in DOMAIN qs, c \in ConvertInputs : AddConvert(q, c[1], c[2], c[3])
    \/ \E q \in DOMAIN qs, raw \in {<<"w", ";">>, <<"z">>} : AddRaw(q, raw)
    \/ \E q \in DOMAIN qs, other \in DOMAIN qs : UnionWith(q, other)
    \/ \E q \in DOMAIN qs, other \in DOMAIN qs : DifferenceWith(q, other)
    \/ \E q \in DOMAIN qs : StrQuery(q)

NextAll == NextAllStatement \/ NextAllQuery

SpecAll == InitAll /\ [][NextAll]_vars

-----------------------------------------------------------------------------
(* Properties *)

\* C1: on every statement kind, whatever the order of with_id and with_ids
\* calls, no state has both a single id and a non-empty ids list.
C1_IdOrIds == \A s \in DOMAIN el : el[s].id = None \/ el[s].ids = <<>>

\* the number of values of a statement's fields that are set (not None)
SetCount(e, fields) == Cardinality({f \in fields : e[f] # None})

SpatialFields == {"bbox", "area_id", "area_name", "around_point", "around_set"}

\* C2: after any sequence of spatial-filter calls on a Node, Way or Relation
\* at most one of bbox, area_id, area_name, around_point, around_set is set.
C2_OneSpatialFilter == \A s \in DOMAIN el : SetCount(el[s], SpatialFields) <= 1

NodeFields == {"node", "node_from_set"}
WayFields == {"way", "way_from_set"}
RelationFields == {"relation", "relation_and_role", "relation_from_set"}

\* C3: after any sequence of membership calls, a Way or Relation holds at
\* most one filter per related kind, and a Node at most one filter among all
\* its way- and relation-membership filters.
C3_OneMembershipFilter ==
    \A s \in DOMAIN el :
        IF el[s].kind = "node"
        THEN SetCount(el[s], WayFields \cup RelationFields) <= 1
        ELSE /\ SetCount(el[s], NodeFields) <= 1
             /\ SetCount(el[s], WayFields) <= 1
             /\ SetCount(el[s], RelationFields) <= 1

\* C5: on every statement kind the tag list holds one entry per key, keys
\* compared without their leading '!': a later with_tag_exists,
\* with_tag_not_exists, with_tag_not or with_tag_regex on a stored key
\* replaces the entry in place and never adds a second clause.
C5_OneEntryPerKey ==
    \A s \in DOMAIN el :
        \A i, j \in 1..Len(el[s].tags) :
            LStrip(el[s].tags[i][1], "!") = LStrip(el[s].tags[j][1], "!") => i = j

\* the statement with neither recursion flag nor a set to store into
Unwrapped(e) ==
    [e EXCEPT !.include_children = FALSE, !.include_parents = FALSE,
              !.store_as_set_name = None]

\* the text the wrap rule gives statement e: the unwrapped statement without
\* its terminator, grouped with the recursion arrows, then suffix and ';'
WrapRule(e) ==
    LET inner == Front(Element_str(Unwrapped(e)))
        arrows == IF e.include_children /\ e.include_parents THEN <<">", ";", "<">>
                  ELSE IF e.include_children THEN <<">">>
                  ELSE IF e.include_parents THEN <<"<">>
                  ELSE <<>>
        group == IF arrows = <<>> THEN inner
                 ELSE <<"(">> \o inner \o <<";">> \o arrows \o <<")">>
        suffix == IF e.store_as_set_name = None THEN <<>>
                  ELSE <<"-", ">", ".">> \o e.store_as_set_name[1]
    IN  group \o suffix \o <<";">>

\* a statement has just been rendered
Rendered(s) == ret.op = "str" /\ ret.obj = "statement" /\ ret.on = s

\* C6: a rendered Way or Relation is the unwrapped statement grouped as
\* (inner;>), (inner;<) or (inner;>;<) according to its recursion flags, with
\* the suffix ->.name and the one terminating ';' after the closing
\* parenthesis, in whatever order the flags and the set name were given.
C6_WrapThenSuffix ==
    \A s \in DOMAIN el :
        Rendered(s) /\ el[s].kind \in {"way", "relation"} => out = WrapRule(el[s])

\* both flags, a set name and an id: the text is (way(0);>;<)->.a;
C6_Witness ==
    \E s \in DOMAIN el :
        /\ Rendered(s)
        /\ el[s].include_children /\ el[s].include_parents
        /\ el[s].store_as_set_name = Some(<<"a">>)
        /\ el[s].id = Some(0)
        /\ out = <<"(", el[s].kind, "(", "0", ")", ";", ">", ";", "<", ")",
                   "-", ">", ".", "a", ";">>

\* Query q has just been rendered and a text was returned
RenderedQuery(q) ==
    ret.op = "str" /\ ret.obj = "query" /\ ret.on = q /\ ret.res = "ok"

\* the entries of a section in the order the add_* calls registered them
LogOf(q, sec) == reg[q][sec]

\* the document the section rule gives Query q: the settings line, the is_in
\* lines, the statement lines, the foreach blocks, the convert lines and the
\* output directive, each section listing its registrations in call order
SectionRule(q) ==
    LET is_in == LogOf(q, "is_in")
        statements == LogOf(q, "statement")
        convert == LogOf(q, "convert")
    IN  Join(<<"\n">>,
             SettingsLines(qs[q])
             \o [i \in 1..Len(is_in) |-> IsInLine(is_in[i])]
             \o [i \in 1..Len(statements) |-> StatementLine(el, statements[i])]
             \o ForeachLines(el, qs, LogOf(q, "foreach"), RecursionLimit).lines
             \o [i \in 1..Len(convert) |-> ConvertLine(convert[i])]
             \o OutputLines(qs[q]))

\* C7: whatever the interleaving of the setting, add_is_in, add_<statement>,
\* add_raw, add_foreach and add_convert calls, a rendered document lists the
\* settings line, the is_in lines, the statement lines, the foreach blocks,
\* the convert lines and the output directive in that order, each section in
\* registration order.
C7_SectionOrder == \A q \in DOMAIN qs : RenderedQuery(q) => out = SectionRule(q)

\* a convert, then a statement, then an is_in were registered, and the text
\* lists them the other way round
C7_Witness ==
    \E q \in DOMAIN qs :
        /\ RenderedQuery(q)
        /\ reg[q].order = <<"convert", "statement", "is_in">>
        /\ out = Join(<<"\n">>,
                      << <<"[", "out", ":", "json", "]", ";">>,
                         IsInLine(reg[q].is_in[1]),
                         StatementLine(el, reg[q].statement[1]),
                         ConvertLine(reg[q].convert[1]),
                         <<"out", " ", "body", ";">> >>)

\* C8: every entry of Query.statements renders on a line of its own that ends
\* with exactly one ';', for every raw text add_raw accepts.
C8_OneTerminator ==
    \A q \in DOMAIN qs :
        \A i \in 1..Len(qs[q].statements) :
            LET line == StatementLine(el, qs[q].statements[i])
            IN  /\ EndsWith(line, ";")
                /\ ~EndsWith(Front(line), ";")
                /\ \A k \in 1..Len(line) : line[k] # "\n"

\* the output configuration the specification forbids: mode count or ids
\* with a sort order, a limit, or a detail other than body
Conflict(qr) ==
    /\ qr.output_mode \in {Some(<<"count">>), Some(<<"ids">>)}
    /\ \/ qr.sort_order # None
       \/ qr.limit # None
       \/ qr.output_detail \notin {None, Some(<<"body">>)}

\* C9 as the specification states it: after any sequence of with_output_mode,
\* with_sort_order, with_limit and with_output_detail calls, output_mode in
\* {count, ids} implies sort_order unset, limit unset and output_detail body
\* or absent, the conflicting call having been rejected when it was made.
C9_NoConflictState == \A q \in DOMAIN qs : ~Conflict(qs[q])

\* C9, amended: each of the four setters accepts every valid value whatever
\* the other output fields hold, and stores it; the conflict is rejected by
\* rendering: a Query whose rendering returned a text has no mode count or ids
\* together with a sort order, a limit or a detail other than body.
C9_SettersAcceptRenderRejects ==
    [][/\ \A q \in DOMAIN qs :
            /\ \A o \in ValidSortOrders :
                  WithSortOrder(q, o)
                      => ret'.res = "ok" /\ qs'[q].sort_order = Some(o)
            /\ \A n \in {k \in LimitInputs : k > 0} :
                  WithLimit(q, n) => ret'.res = "ok" /\ qs'[q].limit = Some(n)
            /\ \A m \in {None} \cup {Some(v) : v \in ValidModes} :
                  WithOutputMode(q, m) => ret'.res = "ok" /\ qs'[q].output_mode = m
            /\ \A d \in {None} \cup {Some(v) : v \in ValidDetails} :
                  WithOutputDetail(q, d)
                      => ret'.res = "ok" /\ qs'[q].output_detail = d
       /\ ret'.op = "str" /\ ret'.obj = "query" /\ ret'.res = "ok"
              => ~Conflict(qs'[ret'.on])
      ]_vars

\* with_sort_order has just returned on a Query whose mode is count or ids
C9_Witness ==
    /\ ret.op = "with_sort_order" /\ ret.res = "ok"
    /\ Conflict(qs[ret.on])
    /\ qs[ret.on].sort_order = Some(<<"qt">>)

\* the Query objects whose rendering is nested in that of q: q and, level by
\* level, the sub-queries of the foreach registrations
RECURSIVE Nested(_, _)
Nested(S, n) ==
    IF n = 0 THEN S
    ELSE Nested(S \cup UNION {{qs[p].foreach_statements[i][2] :
                                  i \in 1..Len(qs[p].foreach_statements)} : p \in S},
                n - 1)

OutputRule(qr) ==
    IF qr.output_mode # None
    THEN Some(<<"out", " ">> \o qr.output_mode[1] \o <<";">>)
    ELSE IF qr.output_detail = None THEN None
    ELSE Some(<<"out", " ">> \o qr.output_detail[1]
              \o (IF qr.sort_order # None THEN <<" ">> \o qr.sort_order[1] ELSE <<>>)
              \o (IF qr.limit # None THEN <<" ">> \o StrInt(qr.limit[1]) ELSE <<>>)
              \o <<";">>)

\* C11: the output directive of a rendered Query depends on the output fields
\* alone: 'out count;' or 'out ids;' as the last line when a mode is set,
\* else 'out <detail>[ <sort>][ <limit>];' as the last line when a detail is
\* present, and no line beginning with 'out ' when the detail is None: the
\* text is then the one rendered with sort order and limit unset.
C11_OutputDirective ==
    \A q \in DOMAIN qs :
        RenderedQuery(q) =>
            LET lines == Split(out, "\n")
                rule == OutputRule(qs[q])
                directives == {i \in 1..Len(lines) : StartsWith(lines[i], <<"out", " ">>)}
                bare == [qs EXCEPT ![q].sort_order = None, ![q].limit = None]
            IN  IF rule = None
                THEN /\ directives = {}
                     /\ out = Query_str(el, bare, q, RecursionLimit).text
                ELSE directives = {Len(lines)} /\ Last(lines) = rule[1]

\* a Query holding a statement, detail skel, sort order qt and limit 5 has
\* been rendered: the last line is 'out skel qt 5;'
C11_Witness ==
    \E q \in DOMAIN qs :
        /\ RenderedQuery(q)
        /\ qs[q].statements # <<>>
        /\ qs[q].output_mode = None
        /\ Last(Split(out, "\n")) = <<"out", " ", "skel", " ", "qt", " ", "5", ";">>

\* a Union has at least one child and a Difference at least one subtracted
\* statement, at every level of nesting
RECURSIVE NonEmptyComposite(_)
NonEmptyComposite(entry) ==
    CASE entry.t = "union" ->
             /\ entry.elements # <<>>
             /\ \A i \in 1..Len(entry.elements) : NonEmptyComposite(entry.elements[i])
      [] entry.t = "difference" ->
             /\ entry.subtract # <<>>
             /\ NonEmptyComposite(entry.base)
             /\ \A i \in 1..Len(entry.subtract) : NonEmptyComposite(entry.subtract[i])
      [] OTHER -> TRUE

\* C12: add_union with zero elements and add_difference with zero subtracted
\* elements raise and leave the statements as they were, and after every
\* add_union, add_difference, union_with or difference_with call each Union
\* in statements has a child and each Difference a subtracted statement.
C12_NoEmptyComposite ==
    [][/\ \A q \in DOMAIN qs :
            /\ AddUnion(q, <<>>) => ret'.res = "ValueError" /\ qs' = qs
            /\ \A base \in DOMAIN el :
                  AddDifference(q, base, <<>>) => ret'.res = "ValueError" /\ qs' = qs
       /\ \A q \in DOMAIN qs :
            \A i \in 1..Len(qs'[q].statements) : NonEmptyComposite(qs'[q].statements[i])
      ]_vars

\* add_union without elements has raised on a Query that already holds the
\* Union made by union_with: that Union is still its only statement
C12_Witness ==
    /\ ret.op = "add_union" /\ ret.res = "ValueError"
    /\ qs[ret.on].statements = <<UnionEntry(<<ElemEntry(1)>>)>>
    /\ \E p \in DOMAIN qs : p # ret.on /\ qs[p].statements = <<ElemEntry(1)>>

\* the statement objects an entry of statements holds, at any depth
RECURSIVE Held(_)
Held(entry) ==
    CASE entry.t = "elem" -> {entry.ref}
      [] entry.t = "union" ->
             UNION {Held(entry.elements[i]) : i \in 1..Len(entry.elements)}
      [] entry.t = "difference" ->
             Held(entry.base)
             \cup UNION {Held(entry.subtract[i]) : i \in 1..Len(entry.subtract)}
      [] OTHER -> {}

\* the statement objects reachable from Query q
Reachable(q) == UNION {Held(qs[q].statements[i]) : i \in 1..Len(qs[q].statements)}

\* C13: after any sequence of add_<statement>, add_union, add_difference,
\* union_with and difference_with calls no statement object is reachable from
\* two Query objects.
C13_ExclusiveOwner ==
    \A s \in DOMAIN el : Cardinality({q \in DOMAIN qs : s \in Reachable(q)}) <= 1

\* the Query objects registered as foreach sub-queries of Query p
SubQueries(p) ==
    {qs[p].foreach_statements[i][2] : i \in 1..Len(qs[p].foreach_statements)}

\* C14: the sub-query containment made by add_foreach is acyclic: no Query
\* is, directly or through other sub-queries, its own foreach sub-query, and
\* rendering a Query never exhausts the recursion depth.
C14_AcyclicForeach ==
    /\ \A q \in DOMAIN qs : q \notin Nested(SubQueries(q), Cardinality(DOMAIN qs))
    /\ ret.op = "str" => ret.res # "RecursionError"

\* C15: every Timeline that was constructed wraps a Node, Way or Relation
\* that carries an id or a non-empty ids list, and a rendered Timeline reads
\* timeline(<kind>(<id-or-ids>));.
C15_TimelineNeedsId ==
    /\ \A i \in DOMAIN tm :
          tm[i].t = "timeline" =>
              /\ el[tm[i].element].kind \in NodeWayRelation
              /\ el[tm[i].element].id # None \/ el[tm[i].element].ids # <<>>
    /\ \A i \in DOMAIN tm :
          ret.op = "str" /\ ret.obj = "temporal" /\ ret.on = i /\ tm[i].t = "timeline" =>
              LET e == el[tm[i].element]
              IN  out = <<"timeline", "(", e.kind, "(">>
                        \o (IF e.id # None THEN StrId(e.id[1]) ELSE StrIds(e.ids))
                        \o <<")", ")", ";">>

\* a set name without any of the characters [ ] { } ( ) ; and not blank
CleanName(name) == Strip(name) # <<>> /\ ~HasInvalidChar(name)

\* the fields of a statement that hold a set name as an Optional
SetNameFields ==
    {"pivot_set", "filter_from_set", "store_as_set_name", "area_name",
     "node_from_set", "way_from_set", "relation_from_set"}

\* C16: every set name stored by from_set, store_as_set, with_pivot,
\* with_area_by_name, with_around_set, the *_from_set membership filters,
\* add_is_in, add_foreach, add_convert or Recurse is not blank and holds none
\* of the characters [ ] { } ( ) ;.
C16_CleanSetNames ==
    /\ \A s \in DOMAIN el :
          /\ \A f \in SetNameFields : el[s][f] # None => CleanName(el[s][f][1])
          /\ el[s].around_set # None => CleanName(el[s].around_set[1][1])
    /\ \A i \in DOMAIN tm : tm[i].set_name # None => CleanName(tm[i].set_name[1])
    /\ \A q \in DOMAIN qs :
          /\ \A i \in 1..Len(qs[q].is_in_statements) :
                qs[q].is_in_statements[i][3] # None
                    => CleanName(qs[q].is_in_statements[i][3][1])
          /\ \A i \in 1..Len(qs[q].foreach_statements) :
                CleanName(qs[q].foreach_statements[i][1])
          /\ \A i \in 1..Len(qs[q].convert_statements) :
                CleanName(qs[q].convert_statements[i][2])

\* the conditions of the form [key<op>value]: brackets around a non-empty
\* key, one of the operators and a value that is double-quoted when the
\* operator is =, != or ~
ConditionGrammar(condition) ==
    /\ StartsWith(condition, <<"[">>) /\ EndsWith(condition, "]")
    /\ LET inner == SubSeq(condition, 2, Len(condition) - 1)
       IN  \E k \in 1..Len(Operators), at \in 1..Len(inner) :
               LET op == Operators[k]
                   key == Strip(SubSeq(inner, 1, at - 1))
                   value == Strip(SubSeq(inner, at + Len(op), Len(inner)))
               IN  /\ at + Len(op) - 1 <= Len(inner)
                   /\ SubSeq(inner, at, at + Len(op) - 1) = op
                   /\ key # <<>>
                   /\ op \in {<<"=">>, <<"!", "=">>, <<"~">>}
                          => Len(value) >= 2 /\ value[1] = "\""
                                 /\ value[Len(value)] = "\""

\* C17: with_tag_condition on a Node, Way or Relation accepts exactly the
\* conditions of the form [key<op>value], op one of = != ~ > < >= <=, the
\* value quoted only for = != ~; an accepted condition is appended to
\* tag_conditions, so [k>=5] is accepted and appended.
C17_GrammarAccepted ==
    [][\A s \in DOMAIN el, c \in CondInputs :
          el[s].kind \in NodeWayRelation /\ WithTagCondition(s, c) =>
              IF ConditionGrammar(c)
              THEN /\ ret'.res = "ok"
                   /\ el'[s].tag_conditions = Append(el[s].tag_conditions, c)
              ELSE ret'.res = "ValueError"
      ]_vars

\* C18: on every statement kind with_tag_condition raises on a condition
\* without enclosing brackets, on a bracketed condition without an operator
\* and on a condition whose value after = is not quoted, and the raising call
\* leaves tag_conditions as they were.
C18_MalformedRejected ==
    [][\A s \in DOMAIN el, c \in CondMalformed :
          WithTagCondition(s, c) => ret'.res = "ValueError" /\ el' = el
      ]_vars

\* the field values of an entry of statements: a statement object is
\* replaced by its fields, at any depth
RECURSIVE EntryValue(_)
EntryValue(entry) ==
    CASE entry.t = "elem" -> <<"elem", el[entry.ref]>>
      [] entry.t = "raw" -> <<"raw", entry.text>>
      [] entry.t = "union" ->
             <<"union", [i \in 1..Len(entry.elements) |-> EntryValue(entry.elements[i])]>>
      [] entry.t = "difference" ->
             <<"difference", EntryValue(entry.base),
               [i \in 1..Len(entry.subtract) |-> EntryValue(entry.subtract[i])]>>

\* the field values of Query q, the statement objects and the foreach
\* sub-queries replaced by their own field values down to n levels
RECURSIVE QueryValue(_, _)
QueryValue(q, n) ==
    IF n = 0 THEN <<>>
    ELSE << [qs[q] EXCEPT !.statements = <<>>, !.foreach_statements = <<>>],
            [i \in 1..Len(qs[q].statements) |-> EntryValue(qs[q].statements[i])],
            [i \in 1..Len(qs[q].foreach_statements) |->
                <<qs[q].foreach_statements[i][1],
                  QueryValue(qs[q].foreach_statements[i][2], n - 1)>>] >>

InBounds(b) ==
    /\ -90 <= b[1] /\ b[1] <= b[3] /\ b[3] <= 90
    /\ -180 <= b[2] /\ b[2] <= b[4] /\ b[4] <= 180

\* C20: a bounding box stored by with_bbox on a Node, Way, Relation or
\* Changeset or by with_global_bbox on a Query is within -90 <= south <=
\* north <= 90 and -180 <= west <= east <= 180; a tuple outside these bounds
\* raises and stores nothing; a statement holding only a bounding box
\* renders as <kind>(south,west,north,east);.
C20_BboxInBounds ==
    [][/\ \A s \in DOMAIN el : el'[s].bbox # None => InBounds(el'[s].bbox[1])
       /\ \A q \in DOMAIN qs :
             qs'[q].global_bbox # None => InBounds(qs'[q].global_bbox[1])
       /\ \A b \in BboxAccepted \cup BboxRefused :
             ~InBounds(b) =>
                 /\ \A s \in DOMAIN el :
                       WithBbox(s, b) => ret'.res = "ValueError" /\ el' = el
                 /\ \A q \in DOMAIN qs :
                       WithGlobalBbox(q, b) => ret'.res = "ValueError" /\ qs' = qs
       /\ \A s \in DOMAIN el :
             /\ ret'.op = "str" /\ ret'.obj = "statement" /\ ret'.on = s
             /\ el[s].bbox # None
             /\ el[s] = [NewElement(el[s].kind) EXCEPT !.bbox = el[s].bbox]
             => LET b == el[s].bbox[1]
                IN  out' = <<el[s].kind, "(", ToString(b[1]), ",", ToString(b[2]), ",",
                             ToString(b[3]), ",", ToString(b[4]), ")", ";">>
      ]_vars

\* a statement holding the bounding box (1,2,3,4) has been rendered after a
\* Query took a global bounding box
C20_Witness ==
    \E s \in DOMAIN el, q \in DOMAIN qs :
        /\ Rendered(s)
        /\ el[s].bbox = Some(<<1, 2, 3, 4>>)
        /\ qs[q].global_bbox = Some(<<-90, -180, 90, 180>>)
        /\ out = <<el[s].kind, "(", "1", ",", "2", ",", "3", ",", "4", ")", ";">>

-----------------------------------------------------------------------------
(* The retry loop of execute_query *)

\* the errors of the client
TypedErrors ==
    {"OverpassSyntaxError", "OverpassRateLimitError", "OverpassTimeoutError",
     "OverpassError"}

\* the last call is an execute_query that has ended
Executed == ret.op = "execute_query" /\ client.pc = "idle"

\* the last call is an execute_query of a Query that renders
Renders == Executed /\ Query_str(el, qs, ret.on, RecursionLimit).res = "ok"

\* a call that ended has returned a result or raised an error of the client
EndsTyped ==
    Executed => \/ ret.res = "ok" /\ client.returned # None
                \/ ret.res \in TypedErrors

\* what one request of the retry loop does, max_retries being N >= 0
RetryStep ==
    \A outcome \in ApiOutcomes :
        ApiQuery(outcome) /\ client.max_retries >= 0 =>
            /\ client'.requests = client.requests + 1
            /\ outcome = "Result" =>
                   /\ client'.pc = "idle" /\ ret'.res = "ok"
                   /\ client'.returned = Some(client'.served)
                   /\ client'.served = client.served + 1
            /\ outcome \in DOMAIN Transient /\ client.requests < client.max_retries =>
                   /\ client'.pc = "query" /\ ret'.res = "running"
                   /\ client'.attempt = client.attempt + 1
            /\ outcome \in DOMAIN Transient /\ client.requests = client.max_retries =>
                   /\ client'.pc = "idle" /\ ret'.res = Transient[outcome]

C22_NoRetryOfPermanentFailure ==
    [][\A outcome \in ApiOutcomes \ ({"Result"} \cup DOMAIN Transient) :
           ApiQuery(outcome) =>
               /\ client'.pc = "idle"
               /\ client'.requests = client.requests + 1
               /\ ret'.op = "execute_query"
               /\ ret'.res = IF outcome = "OverpassBadRequest"
                             THEN "OverpassSyntaxError" ELSE "OverpassError"]_vars

\* a bad request after one retry, one attempt remaining
C22_Witness ==
    /\ Executed
    /\ ret.res = "OverpassSyntaxError"
    /\ client.requests = 2 /\ client.max_retries = 2

-----------------------------------------------------------------------------
(* The cache of the client *)

\* the cache holds one entry per text, each a Result the API has returned
CacheOfResults ==
    /\ \A i \in DOMAIN client.cache : client.cache[i].value \in 1..client.served
    /\ \A i, j \in DOMAIN client.cache :
           client.cache[i].key = client.cache[j].key => i = j

\* the steps that read and write the cache
CacheStep ==
    /\ \A q \in DOMAIN qs :
           LET rendered == Query_str(el, qs, q, RecursionLimit)
           IN  /\ ExecuteQuery(q, TRUE) /\ rendered.res = "ok"
                      /\ InCache(client.cache, rendered.text) =>
                      /\ client'.pc = "idle" /\ ret'.res = "ok"
                      /\ client'.returned = Some(CacheGet(client.cache, rendered.text))
                      /\ client'.requests = 0
               /\ \A use_cache \in BOOLEAN :
                      ExecuteQuery(q, use_cache) /\ rendered.res = "ok"
                          /\ ~InCache(client.cache, rendered.text)
                          /\ client.max_retries >= 0 =>
                          client'.pc = "query" /\ client'.query_str = rendered.text
    /\ ApiQuery("Result") /\ client.use_cache =>
           /\ InCache(client'.cache, client.query_str)
           /\ Some(CacheGet(client'.cache, client.query_str)) = client'.returned
    /\ ClearCache => client'.cache = <<>>
    /\ client'.cache # client.cache =>
           \/ ClearCache
           \/ /\ ApiQuery("Result") /\ client.use_cache
              /\ client'.cache =
                     Append(client.cache, [key |-> client.query_str,
                                           value |-> client'.served])

\* C23: with use_cache=True a successful execute_query stores the Result
\* under the rendered text, the entry stays as it is until clear_cache, and
\* every execute_query of a Query with that text returns that Result without
\* a request; clear_cache empties the cache, and an execute_query whose text
\* is not in the cache goes to the API; the cache holds nothing but Results
\* the API has returned
C23_CachedUntilCleared == []CacheOfResults /\ [][CacheStep]_vars

\* the second Query, never executed before, got the Result the API returned
\* for the same text, without a request
C23_Witness ==
    /\ Executed /\ ret.on = 2 /\ ret.res = "ok"
    /\ client.use_cache /\ client.requests = 0
    /\ client.served = 1 /\ client.returned = Some(1)
    /\ reg[1] = EmptyLog /\ reg[2] = EmptyLog

-----------------------------------------------------------------------------
(* The order of the clauses of a statement *)

\* the numeric and boolean clauses of the kind of e: what a statement of the
\* kind renders between keyword and terminator when it holds these fields only
KindClauses(e) ==
    LET bare == [NewElement(e.kind) EXCEPT
                     !.is_closed = e.is_closed, !.min_length = e.min_length,
                     !.min_nodes = e.min_nodes, !.min_members = e.min_members,
                     !.min_role_count = e.min_role_count,
                     !.time_range = e.time_range]
        text == Element_str(bare)
    IN  SubSeq(text, 2, Len(text) - 1)

\* the text with every set field in the one order of clauses
ClauseOrder(e) ==
    FromSetPrefix(e) \o <<e.kind>> \o IdClause(e) \o PivotClause(e)
    \o TagClauses(e.tags) \o Concat(e.tag_conditions)
    \o append_if_conditions(e.if_conditions)
    \o KindClauses(e)
    \o SpatialClauses(e)
    \o NodeClauses(e) \o WayClauses(e) \o RelationClauses(e)
    \o StoreSuffix(e) \o <<";">>

\* C24: the text of a statement of any kind (no recursion requested) is its
\* set fields in one order: source-set prefix, keyword, id or ids, pivot set
\* whenever one is set, tags in registration order, raw conditions,
\* if-conditions, the clauses of the kind, the spatial clause, node, way and
\* relation membership, set suffix, terminator; an unset field renders nothing
C24_ClauseOrder ==
    ret.op = "str" /\ ret.obj = "statement"
        /\ ~el[ret.on].include_children /\ ~el[ret.on].include_parents =>
        out = ClauseOrder(el[ret.on])

-----------------------------------------------------------------------------
(* The foreach blocks of a document *)

\* a line that is a settings line or an output directive by its form
IsDirective(line) == StartsWith(line, <<"[">>) \/ StartsWith(line, <<"out", " ">>)

\* the blocks the registrations fs render to: per registration the opening
\* line, the lines of the sub-query between its settings line and its output
\* directive, each indented and ended by one ';', and the closing line;
\* nothing for a sub-query without such lines
RECURSIVE ForeachRule(_, _)
ForeachRule(fs, depth) ==
    IF fs = <<>> \/ depth = 0 THEN <<>>
    ELSE LET set_name == Head(fs)[1]
             sub == qs[Head(fs)[2]]
             body ==
                 [i \in 1..Len(sub.is_in_statements) |->
                     IsInLine(sub.is_in_statements[i])]
                 \o [i \in 1..Len(sub.statements) |-> StatementLine(el, sub.statements[i])]
                 \o ForeachRule(sub.foreach_statements, depth - 1)
                 \o [i \in 1..Len(sub.convert_statements) |->
                        ConvertLine(sub.convert_statements[i])]
             embedded == SelectSeq(body, LAMBDA line : ~IsDirective(line))
         IN  (IF embedded = <<>> THEN <<>>
              ELSE <<<<".">> \o set_name \o <<" ", "foreach", " ", "{">>>>
                   \o [i \in 1..Len(embedded) |->
                          <<" ", " ">> \o RStrip(embedded[i], ";") \o <<";">>]
                   \o <<<<"}", ";">>>>)
             \o ForeachRule(Tail(fs), depth)

\* the document of Query q with its foreach blocks as the rule gives them
ForeachDocument(q) ==
    Join(<<"\n">>, DocumentLines(el, qs[q],
                                 ForeachRule(qs[q].foreach_statements, RecursionLimit)))

-----------------------------------------------------------------------------
(* The time filters of a Changeset *)

\* the statement carries a 'time' tag
HasTimeTag(e) == \E i \in 1..Len(e.tags) : e.tags[i][1] = <<"time">>

\* C26: a Changeset never carries a 'time' tag together with a time range,
\* whatever operations were called on it
C26_OneTimeFilter ==
    \A s \in DOMAIN el :
        el[s].kind = "changeset" => ~(HasTimeTag(el[s]) /\ el[s].time_range # None)

-----------------------------------------------------------------------------
(* id and pivot set of an Area *)

\* no Area holds an id and a pivot set, and an id it holds is not below the
\* area threshold
AreaIdOrPivot ==
    \A s \in DOMAIN el :
        el[s].kind = "area" =>
            /\ ~(el[s].id # None /\ el[s].pivot_set # None)
            /\ el[s].id # None => el[s].id[1] >= AreaIdMin

\* with_id on an Area with a pivot set or with an id below the threshold, and
\* with_pivot on an Area with an id, raise and change nothing
AreaRefuses ==
    \A s \in DOMAIN el :
        el[s].kind = "area" =>
            /\ \A id \in -1..(AreaIdMin + 1) :
                   WithId(s, id) /\ (el[s].pivot_set # None \/ id < AreaIdMin) =>
                       ret'.res = "ValueError" /\ el' = el
            /\ \A name \in NameInputs \cup {<<"p">>} :
                   WithPivot(s, name) /\ el[s].id # None =>
                       ret'.res = "ValueError" /\ el' = el

\* C27: on an Area id and pivot set exclude each other in either call order,
\* the refused call changing nothing, and with_id refuses every id below
\* 2400000000, so that an id stored on an Area is at least 2400000000
C27_AreaIdXorPivot == []AreaIdOrPivot /\ [][AreaRefuses]_vars

\* with_pivot has been refused on an Area that holds an id
C27_Witness ==
    /\ ret.op = "with_pivot" /\ ret.res = "ValueError"
    /\ el[1].kind = "area" /\ el[1].id = Some(AreaIdMin)
    /\ el[1].pivot_set = None

-----------------------------------------------------------------------------
(* The metadata tags of a Changeset *)

MetaKeys == {<<"user">>, <<"uid">>, <<"comment">>, <<"created_by">>}

\* the entries of the tag list with the key
EntriesOf(tags, key) == {i \in 1..Len(tags) : tags[i][1] = key}

\* the clauses of the text that open with the key
ClausesOf(text, key) ==
    {i \in 1..(Len(text) - 1) : text[i] = "[" /\ text[i + 1] = key[1]}

\* the call stored value under key: an entry of the key that was there is
\* replaced where it stood and nothing else changes
ReplacedInPlace(s, key, value) ==
    ret'.res = "ok" /\ EntriesOf(el[s].tags, key) # {} =>
        /\ Len(el'[s].tags) = Len(el[s].tags)
        /\ \A i \in 1..Len(el[s].tags) :
               el'[s].tags[i] =
                   IF i = FirstExactMatch(el[s].tags, key) THEN <<key, value>>
                   ELSE el[s].tags[i]

\* C28: on a Changeset a second with_user, with_uid, with_comment or
\* with_created_by replaces the entry of its key in place: the tag list holds
\* one entry for the key, where the first call put it, with the value of the
\* last call, and the text has one clause for the key
C28_MetadataReplacedInPlace ==
    /\ [](\A s \in DOMAIN el : \A key \in MetaKeys :
              /\ Cardinality(EntriesOf(el[s].tags, key)) <= 1
              /\ ret.op = "str" /\ ret.on = s =>
                     Cardinality(ClausesOf(out, key))
                         = Cardinality(EntriesOf(el[s].tags, key)))
    /\ [][\A s \in DOMAIN el :
              /\ \A v \in MetaTexts :
                     /\ WithUser(s, v) => ReplacedInPlace(s, <<"user">>, v)
                     /\ WithComment(s, v) =>
                            ReplacedInPlace(s, <<"comment">>, <<"\"">> \o v \o <<"\"">>)
                     /\ WithCreatedBy(s, v) => ReplacedInPlace(s, <<"created_by">>, v)
              /\ \A uid \in {1, 2} :
                     WithUid(s, uid) => ReplacedInPlace(s, <<"uid">>, StrInt(uid))]_vars

\* with_user, with_comment, with_user again: the user entry is still first
\* and carries the second name
C28_Witness ==
    /\ ret.op = "with_user" /\ ret.res = "ok" /\ budget = MaxCalls - 3
    /\ Len(el[1].tags) = 2
    /\ el[1].tags[1] = <<<<"user">>, <<"b">>>>
    /\ el[1].tags[2][1] = <<"comment">>

-----------------------------------------------------------------------------
(* The spatial filter is written once *)

\* C29: once a spatial filter is set on a statement no call changes a
\* spatial field of it: every later spatial setter raises and the filter set
\* first stays as it is
C29_SpatialWriteOnce ==
    [][\A s \in DOMAIN el :
           SetCount(el[s], SpatialFields) >= 1 =>
               \A f \in SpatialFields : el'[s][f] = el[s][f]]_vars

-----------------------------------------------------------------------------
(* difference_with *)

\* what difference_with(other) does to Query q
DifferenceEffect(q, other) ==
    LET mine == qs[q].statements
        theirs == qs[other].statements
    IN  IF mine # <<>> /\ theirs # <<>>
        THEN /\ ret'.res = "ok"
             /\ Len(qs'[q].statements) = Len(mine)
             /\ qs'[q].statements[1] = DifferenceEntry(mine[1], theirs)
             /\ \A i \in 2..Len(mine) : qs'[q].statements[i] = mine[i]
             /\ other # q => qs'[other] = qs[other]
             /\ qs'[q] = [qs[q] EXCEPT !.statements = qs'[q].statements]
             /\ el' = el
        ELSE ret'.res = "ValueError" /\ qs' = qs /\ el' = el

\* C30: difference_with(other) on two Query objects that have statements
\* puts a Difference of the former first statement and of other's statements,
\* in their order, in the place of the first statement; the number of
\* statements, the remaining statements and their order, and other's
\* statements stay as they were; when one of the two has no statement the
\* call raises and changes nothing
C30_DifferenceReplacesFirst ==
    [][\A q \in DOMAIN qs, other \in DOMAIN qs :
           DifferenceWith(q, other) => DifferenceEffect(q, other)]_vars

\* a Query of two statements after difference_with another Query of two,
\* which is as it was
C30_Witness ==
    \E q \in DOMAIN qs : \E other \in DOMAIN qs \ {q} :
        /\ ret.op = "difference_with" /\ ret.on = q /\ ret.res = "ok"
        /\ Len(qs[q].statements) = 2 /\ Len(qs[other].statements) = 2
        /\ qs[q].statements[1].t = "difference"
        /\ qs[q].statements[1].subtract = qs[other].statements
        /\ qs[q].statements[2].t = "elem"

====
